---------------------------- MODULE Spec2Model ----------------------------
(***************************************************************************)
(* Model of the command dispatcher of netwarlan/ned: the per-server        *)
(* lifecycle lock of ServerHandler.handleLifecycle, the fan-out/join       *)
(* batches of handleStatus, handleAllServers and handleMap, the match      *)
(* start/stop handlers with the MatchExecutor, ShellExecutor.Run, the      *)
(* single-server status and players requests, and the configuration with   *)
(* the target maps derived from it.                                        *)
(*                                                                         *)
(* Every Discord interaction is served by its own goroutine, so the        *)
(* handlers below are split at each access to shared state (the sync.Map   *)
(* of mutexes, a mutex, the response channel, the WaitGroup) and the steps *)
(* of different interactions interleave freely.                            *)
(***************************************************************************)
EXTENDS Integers, Sequences, FiniteSets, TLC

(***************************************************************************)
(* Bounds of the model.                                                    *)
(***************************************************************************)
\* number of lifecycle interactions (/ned start|stop|restart) in one run
MaxReqs == 2

Reqs == 1..MaxReqs

(***************************************************************************)
(* Configuration (config.Config): the cfg.Servers map.  Two configured     *)
(* servers; "ghost" is a key a request can carry that is not configured.   *)
(***************************************************************************)
Servers ==
  [k \in {"tf2", "cs2", "web"} |->
     CASE k = "tf2" ->
            [DisplayName |-> "Team Fortress 2", Script |-> "tf2/tf2.sh",
             IP |-> <<10, 0, 0, 10>>, Port |-> 27015,
             Protocol |-> "source", QueryPort |-> 27015, RCONPort |-> 0,
             RCONPassword |-> "", Category |-> "game"]
       [] k = "cs2" ->
            [DisplayName |-> "CS2 Casual", Script |-> "cs2/cs2.sh",
             IP |-> <<10, 0, 0, 20>>, Port |-> 27016,
             Protocol |-> "source", QueryPort |-> 27016, RCONPort |-> 27016,
             RCONPassword |-> "secret", Category |-> "cs2"]
       [] k = "web" ->
            [DisplayName |-> "Web", Script |-> "web/web.sh",
             IP |-> <<10, 0, 0, 30>>, Port |-> 0,
             Protocol |-> "none", QueryPort |-> 0, RCONPort |-> 0,
             RCONPassword |-> "", Category |-> "infra"]]

ServerKeys == DOMAIN Servers

\* the number of match instances configured (cfg.CS2Matches.Pro.MaxInstances)
MaxInstances == 1

\* cfg.CS2Matches: the dynamically generated match instances
CS2Matches ==
  [Script |-> "cs2/match.sh", Protocol |-> "source", QueryPort |-> 27015,
   RCONPort |-> 27015, RCONPassword |-> "matchpw",
   Pro |-> [MaxInstances |-> MaxInstances, IPBase |-> <<10, 0, 0, 100>>,
            DisplayPrefix |-> "CS2 Match Pro"]]

\* fmt.Sprintf("match-pro-%d", i)
MatchKey(i) == "match-pro-" \o ToString(i)

MatchKeys == {MatchKey(i) : i \in 1..CS2Matches.Pro.MaxInstances}

\* Config.AllQueryTargets: the keys of the map it returns
AllQueryTargets ==
  {k \in ServerKeys : Servers[k].Protocol = "source" /\ Servers[k].QueryPort > 0}
    \cup (IF CS2Matches.Protocol = "source" /\ CS2Matches.QueryPort > 0
          THEN MatchKeys ELSE {})

\* Config.AllCS2RCONTargets: the keys of the map it returns
AllCS2RCONTargets ==
  {k \in ServerKeys : /\ Servers[k].Category = "cs2"
                      /\ Servers[k].RCONPort > 0
                      /\ Servers[k].RCONPassword # ""}
    \cup MatchKeys

\* every key a batch can start a goroutine for
AllTargets == AllQueryTargets \cup AllCS2RCONTargets

\* Config.DisplayName
DisplayName(key) ==
  IF key \in ServerKeys THEN Servers[key].DisplayName
  ELSE IF key \in MatchKeys
       THEN CS2Matches.Pro.DisplayPrefix \o " "
              \o ToString(CHOOSE i \in 1..CS2Matches.Pro.MaxInstances :
                            MatchKey(i) = key)
       ELSE key

\* the order of the keys as Go compares strings (results[i].key < results[j].key)
KeyRank(key) ==
  CASE key = "cs2" -> 0
    [] key = "dod" -> 1
    [] key \in MatchKeys ->
         1 + CHOOSE i \in 1..CS2Matches.Pro.MaxInstances : MatchKey(i) = key
    [] key = "misc" -> CS2Matches.Pro.MaxInstances + 2
    [] key = "tf2" -> CS2Matches.Pro.MaxInstances + 3
    [] key = "web" -> CS2Matches.Pro.MaxInstances + 4

KeyLess(a, b) == KeyRank(a) < KeyRank(b)

(***************************************************************************)
(* Configurations (config.Config) as Load reads them.  An IP address is    *)
(* the tuple of its four octets, <<>> a string that is no IPv4 address; an *)
(* address is the pair net.JoinHostPort makes of an IP and a port.         *)
(***************************************************************************)
\* servers a configuration file can list next to tf2, cs2 and web: a static
\* server under the key of the first match instance, a source server without
\* a query port, a server of a category the status report does not know
ExtraServers ==
  [k \in {"match-pro-1", "dod", "misc"} |->
     CASE k = "match-pro-1" ->
            [DisplayName |-> "Static Match", Script |-> "cs2/static.sh",
             IP |-> <<10, 0, 0, 50>>, Port |-> 27015,
             Protocol |-> "source", QueryPort |-> 27015, RCONPort |-> 27015,
             RCONPassword |-> "staticpw", Category |-> "cs2"]
       [] k = "dod" ->
            [DisplayName |-> "Day of Defeat", Script |-> "dod/dod.sh",
             IP |-> <<10, 0, 0, 40>>, Port |-> 27017,
             Protocol |-> "source", QueryPort |-> 0, RCONPort |-> 0,
             RCONPassword |-> "", Category |-> "game"]
       [] k = "misc" ->
            [DisplayName |-> "Voice", Script |-> "misc/voice.sh",
             IP |-> <<10, 0, 0, 60>>, Port |-> 9987,
             Protocol |-> "none", QueryPort |-> 0, RCONPort |-> 0,
             RCONPassword |-> "", Category |-> "other"]]

\* the servers map of a configuration: tf2, cs2, web and the extra servers
ServersWith(extra) ==
  [k \in ServerKeys \cup extra |->
     IF k \in ServerKeys THEN Servers[k] ELSE ExtraServers[k]]

\* the base addresses of the match instances a configuration file can give
IPBases == {<<10, 0, 0, 100>>, <<10, 0, 0, 255>>, <<>>}

\* what a configuration file can get wrong for Validate
Defects == {"none", "token", "guild", "scripts_dir", "environment",
            "script", "protocol", "match_script"}

\* the configuration files of this model
Configs ==
  {[Token |-> IF defect = "token" THEN "" ELSE "token",
    GuildID |-> IF defect = "guild" THEN "" ELSE "guild",
    ScriptsDir |-> IF defect = "scripts_dir" THEN "" ELSE "/scripts",
    Environment |-> IF defect = "environment" THEN "prod" ELSE "event",
    Servers |-> [k \in ServerKeys \cup extra |->
                   IF k = "tf2" /\ defect = "script"
                   THEN [Servers[k] EXCEPT !.Script = ""]
                   ELSE IF k = "tf2" /\ defect = "protocol"
                   THEN [Servers[k] EXCEPT !.Protocol = "udp"]
                   ELSE ServersWith(extra)[k]],
    CS2Matches |-> [CS2Matches EXCEPT
                      !.Script = IF defect = "match_script" THEN "" ELSE @,
                      !.Protocol = protocol,
                      !.Pro.IPBase = base]] :
     defect \in Defects,
     extra \in {{}, {"match-pro-1"}, {"dod"}, {"misc"}},
     protocol \in {"source", "none"},
     base \in IPBases}

\* Config.Validate: "nil" or the class of the error it returns
Validate(c) ==
  IF c.Token = "" THEN "discord.token is required"
  ELSE IF c.GuildID = "" THEN "discord.guild_id is required"
  ELSE IF c.ScriptsDir = "" THEN "scripts_dir is required"
  ELSE IF c.Environment # "event" /\ c.Environment # "local"
  THEN "environment must be event or local"
  ELSE IF \E k \in DOMAIN c.Servers : c.Servers[k].Script = ""
  THEN "script is required"
  ELSE IF \E k \in DOMAIN c.Servers :
            c.Servers[k].Protocol # "source" /\ c.Servers[k].Protocol # "none"
  THEN "protocol must be source or none"
  ELSE IF c.CS2Matches.Script = "" THEN "cs2_matches.script is required"
  ELSE "nil"

\* MatchTierConfig.InstanceIP: ip[3] += byte(n) on the four bytes of the base
\* address, "" (here <<>>) when the base is no IPv4 address
InstanceIP(tier, n) ==
  IF tier.IPBase = <<>> THEN <<>>
  ELSE [tier.IPBase EXCEPT ![4] = (@ + (n % 256)) % 256]

\* Config.AllQueryTargets: the map from key to address
QueryTargets(c) ==
  LET static == {k \in DOMAIN c.Servers :
                   c.Servers[k].Protocol = "source" /\ c.Servers[k].QueryPort > 0}
      match == IF c.CS2Matches.Protocol = "source" /\ c.CS2Matches.QueryPort > 0
               THEN {MatchKey(i) : i \in 1..c.CS2Matches.Pro.MaxInstances}
               ELSE {}
  IN  [k \in static \cup match |->
         IF k \in match
         THEN [IP |-> InstanceIP(c.CS2Matches.Pro,
                                 CHOOSE i \in 1..c.CS2Matches.Pro.MaxInstances :
                                   MatchKey(i) = k),
               Port |-> c.CS2Matches.QueryPort]
         ELSE [IP |-> c.Servers[k].IP, Port |-> c.Servers[k].QueryPort]]

\* Config.AllCS2RCONTargets: the map from key to RCONTarget
RCONTargets(c) ==
  LET static == {k \in DOMAIN c.Servers :
                   /\ c.Servers[k].Category = "cs2"
                   /\ c.Servers[k].RCONPort > 0
                   /\ c.Servers[k].RCONPassword # ""}
      match == {MatchKey(i) : i \in 1..c.CS2Matches.Pro.MaxInstances}
  IN  [k \in static \cup match |->
         IF k \in match
         THEN [Address |-> [IP |-> InstanceIP(c.CS2Matches.Pro,
                                      CHOOSE i \in 1..c.CS2Matches.Pro.MaxInstances :
                                        MatchKey(i) = k),
                            Port |-> c.CS2Matches.RCONPort],
               Password |-> c.CS2Matches.RCONPassword]
         ELSE [Address |-> [IP |-> c.Servers[k].IP, Port |-> c.Servers[k].RCONPort],
               Password |-> c.Servers[k].RCONPassword]]

\* RCONHandler.resolveServer: (address, password, err)
resolveServer(c, key) ==
  IF key \in DOMAIN c.Servers
  THEN IF c.Servers[key].RCONPort = 0 \/ c.Servers[key].RCONPassword = ""
       THEN [Address |-> [IP |-> <<>>, Port |-> 0], Password |-> "",
             err |-> "does not have RCON configured"]
       ELSE [Address |-> [IP |-> c.Servers[key].IP, Port |-> c.Servers[key].RCONPort],
             Password |-> c.Servers[key].RCONPassword, err |-> "nil"]
  ELSE IF key \in DOMAIN RCONTargets(c)
  THEN [Address |-> RCONTargets(c)[key].Address,
        Password |-> RCONTargets(c)[key].Password, err |-> "nil"]
  ELSE [Address |-> [IP |-> <<>>, Port |-> 0], Password |-> "",
        err |-> "unknown server"]

\* the configuration the handlers of the other sections run under
DefaultConfig ==
  [Token |-> "token", GuildID |-> "guild", ScriptsDir |-> "/scripts",
   Environment |-> "event", Servers |-> Servers, CS2Matches |-> CS2Matches]

\* no operation on the configuration has returned yet
NoOut == [op |-> "none", key |-> "", n |-> 0, ip |-> <<>>, err |-> "nil",
          lines |-> <<>>]

\* the keys a lifecycle request carries in this model: two configured servers
\* and one key that is not configured
RequestKeys == {"tf2", "cs2", "ghost"}

\* the three lifecycle subcommands and the script command each one passes
Subcommands == {"start", "stop", "restart"}

\* Faulty variant: HandleStop hands "up" to handleLifecycle
HandleAction_stopUp(sub) ==
  CASE sub = "start"   -> "up"
    [] sub = "stop"    -> "up"
    [] sub = "restart" -> "restart"

\* HandleStart / HandleStop / HandleRestart: the action handed to handleLifecycle
HandleAction(sub) ==
  CASE sub = "start"   -> "up"
    [] sub = "stop"    -> "down"
    [] sub = "restart" -> "restart"

\* handleLifecycle: actionVerb[action], falling back to the action itself
actionVerb(action) ==
  CASE action = "up"      -> "Starting"
    [] action = "down"    -> "Stopping"
    [] action = "restart" -> "Restarting"
    [] OTHER              -> action

(***************************************************************************)
(* ShellExecutor.Run.  RunEvents are the ways cmd.Run() can end:           *)
(*   "exit0"      err == nil                                               *)
(*   "exitN"      err is an *exec.ExitError (the script exited non-zero)   *)
(*   "killed"     the script was still running at the deadline and was     *)
(*                killed: os/exec reports the wait status of a killed      *)
(*                process as an *exec.ExitError whose ExitCode() is -1,    *)
(*                and prefers it to the error of the context               *)
(*   "deadline"   another error, with ctx.Err() == DeadlineExceeded (the   *)
(*                script exited with status 0 as the deadline passed)      *)
(*   "spawnfail"  another error (bash could not be started)               *)
(* Run maps the command and the event to the pair (result, err) returned.  *)
(***************************************************************************)
RunEvents == {"exit0", "exitN", "killed", "deadline", "spawnfail"}

\* the deadline of the context had passed when cmd.Run() returned
DeadlinePassed(ev) == ev \in {"killed", "deadline"}

\* what the script had written to stdout and stderr when cmd.Run() returned
Captured(ev) ==
  CASE ev \in {"exit0", "exitN"} -> [Stdout |-> "out", Stderr |-> "err"]
    [] DeadlinePassed(ev)        -> [Stdout |-> "out so far", Stderr |-> "err so far"]
    [] ev = "spawnfail"          -> [Stdout |-> "", Stderr |-> ""]

\* the exit status a failing script is given in this model
FailCode == 42

StartType(command) == command = "up" \/ command = "start" \/ command = "u"

\* the timeout Run puts on the context, in seconds
RunTimeout(command) == IF StartType(command) THEN 30 ELSE 120

\* Faulty variant: a non-zero exit is returned as an error
Run_exitIsError(command, ev) ==
  CASE ev = "exit0"     -> [Stdout |-> "out", Stderr |-> "err", ExitCode |-> 0,
                            err |-> "nil"]
    [] ev = "exitN"     -> [Stdout |-> "out", Stderr |-> "err", ExitCode |-> FailCode,
                            err |-> "exit status"]
    [] ev = "killed"    -> [Stdout |-> "out so far", Stderr |-> "err so far",
                            ExitCode |-> 0 - 1, err |-> "exit status"]
    [] ev = "deadline"  -> [Stdout |-> "out so far", Stderr |-> "err so far",
                            ExitCode |-> 0,
                            err |-> IF command \in {"up", "start", "u"}
                                    THEN "nil" ELSE "timeout"]
    [] ev = "spawnfail" -> [Stdout |-> "", Stderr |-> "", ExitCode |-> 0,
                            err |-> "exec"]

\* Faulty variant: a passed deadline is a timeout error for every command
Run_noStartCase(command, ev) ==
  CASE ev = "exit0"     -> [Stdout |-> "out", Stderr |-> "err", ExitCode |-> 0,
                            err |-> "nil"]
    [] ev = "exitN"     -> [Stdout |-> "out", Stderr |-> "err", ExitCode |-> FailCode,
                            err |-> "nil"]
    [] ev = "killed"    -> [Stdout |-> "out so far", Stderr |-> "err so far",
                            ExitCode |-> 0 - 1, err |-> "nil"]
    [] ev = "deadline"  -> [Stdout |-> "out so far", Stderr |-> "err so far",
                            ExitCode |-> 0, err |-> "timeout"]
    [] ev = "spawnfail" -> [Stdout |-> "", Stderr |-> "", ExitCode |-> 0,
                            err |-> "exec"]

\* the result of Run before the error is looked at
Result(ev) ==
  [Stdout |-> Captured(ev).Stdout, Stderr |-> Captured(ev).Stderr, ExitCode |-> 0]

Run(command, ev) ==
  CASE ev = "exit0"     -> [Result(ev) EXCEPT !.ExitCode = 0] @@ [err |-> "nil"]
    [] ev = "exitN"     -> [Result(ev) EXCEPT !.ExitCode = FailCode] @@ [err |-> "nil"]
    [] ev = "killed"    -> [Result(ev) EXCEPT !.ExitCode = -1] @@ [err |-> "nil"]
    [] ev = "deadline"  -> IF StartType(command)
                           THEN Result(ev) @@ [err |-> "nil"]
                           ELSE Result(ev) @@ [err |-> "timeout"]
    [] ev = "spawnfail" -> Result(ev) @@ [err |-> "exec"]

\* the scripts of the configuration, relative to the scripts directory
Scripts == {Servers[k].Script : k \in ServerKeys} \cup {CS2Matches.Script}

\* the commands Run is given: the lifecycle actions, the other spellings of a
\* start Run knows, "update", and the commands of the MatchExecutor
Commands ==
  {"up", "start", "u", "down", "restart", "update",
   "match up --count 1", "match down --count 1"}

\* no call of Run has been made
NoCall ==
  [phase |-> "idle", script |-> "", command |-> "", timeout |-> 0, ev |-> "none",
   result |-> [Stdout |-> "", Stderr |-> "", ExitCode |-> 0, err |-> "nil"]]

\* a nil *ServerStatus, and &ServerStatus{Online: false}
NilStatus ==
  [Present |-> FALSE, Online |-> FALSE, Map |-> "", Players |-> 0, MaxPlayers |-> 0,
   Bots |-> 0]

OfflineStatus ==
  [Present |-> TRUE, Online |-> FALSE, Map |-> "", Players |-> 0, MaxPlayers |-> 0,
   Bots |-> 0]

(***************************************************************************)
(* State.                                                                  *)
(***************************************************************************)
VARIABLES
  pc,          \* pc[r]: where the handler goroutine of interaction r stands
  serviceKey,  \* serviceKey[r]: the key the request carries ("" before arrival)
  subcommand,  \* subcommand[r]: start, stop or restart ("" before arrival)
  mu,          \* mu[r]: the *sync.Mutex the handler got from serverLock (0: none)
  locks,       \* h.locks (sync.Map): key -> the mutex stored for it (0: no entry)
  mutexes,     \* mutexes[m]: state of the mutex allocated by interaction m
  bg,          \* bg[r]: where the background goroutine of interaction r stands
  runEvent,    \* runEvent[r]: how cmd.Run() ended, while the goroutine still
               \* holds result and err ("none" before and after)
  responses,   \* responses[r]: what was sent on the interaction's response channel
  invocations, \* invocations[r]: the executor.Run calls made for interaction r
  \* one batch interaction (handleStatus, handleAllServers or handleMap)
  batch,       \* the handler: [pc, kind, key, targets], targets being its target map
  child,       \* child[k]: where the goroutine started for target k stands
  outcome,     \* outcome[k]: how the query or RCON call on k ended ("none" before)
  resultsMu,   \* the handler's local mu: "free" or the target whose goroutine holds it
  results,     \* the handler's local results slice
  slot,        \* slot[k]: the length of results the append of k's goroutine read
  wg,          \* the counter of the handler's local sync.WaitGroup
  followUps,   \* what was sent on the batch interaction's response channel
  matchMu,     \* CS2Handler.matchMu: "unlocked" or "locked"
  fleet,       \* fleet[f]: the match start/stop interaction f, [pc, op, count]
  fleetOut,    \* fleetOut[f]: what was sent on f's response channel
  matchRuns,   \* the calls of ShellExecutor.Run made by the MatchExecutor:
               \* [by, script, command, env]
  call,        \* one call of ShellExecutor.Run: [phase, script, command, timeout,
               \* ev, result]
  single,      \* single[r]: the single-server status or players interaction r,
               \* [pc, handler, key, ev, st, out]
  cfg,         \* the configuration file Load read: [pc, err, c]
  cfgOut,      \* what the last operation on the loaded configuration returned:
               \* [op, key, n, ip, err, lines]
  rcon         \* one /ned rcon interaction: [pc, key, out, calls], out being
               \* what was sent on its response channel and calls the calls
               \* of rcon.Execute it made

lifecycleVars == <<pc, serviceKey, subcommand, mu, locks, mutexes, bg, runEvent,
                   responses, invocations>>

batchVars == <<batch, child, outcome, resultsMu, results, slot, wg, followUps>>

fleetVars == <<matchMu, fleet, fleetOut, matchRuns>>

runVars == <<call>>

singleVars == <<single>>
cfgVars == <<cfg, cfgOut>>

rconVars == <<rcon>>

vars == <<lifecycleVars, batchVars, fleetVars, runVars, singleVars, cfgVars,
          rconVars>>

Init ==
  /\ pc = [r \in Reqs |-> "idle"]
  /\ serviceKey = [r \in Reqs |-> ""]
  /\ subcommand = [r \in Reqs |-> ""]
  /\ mu = [r \in Reqs |-> 0]
  /\ locks = [k \in RequestKeys |-> 0]
  /\ mutexes = [m \in Reqs |-> "unlocked"]
  /\ bg = [r \in Reqs |-> "none"]
  /\ runEvent = [r \in Reqs |-> "none"]
  /\ responses = [r \in Reqs |-> <<>>]
  /\ invocations = [r \in Reqs |-> <<>>]
  /\ batch = [pc |-> "idle", kind |-> "", key |-> "", targets |-> {}]
  /\ child = [k \in AllTargets |-> "none"]
  /\ outcome = [k \in AllTargets |-> "none"]
  /\ resultsMu = "free"
  /\ results = <<>>
  /\ slot = [k \in AllTargets |-> 0]
  /\ wg = 0
  /\ followUps = <<>>
  /\ matchMu = "unlocked"
  /\ fleet = [f \in Reqs |-> [pc |-> "idle", op |-> "", count |-> 0]]
  /\ fleetOut = [f \in Reqs |-> <<>>]
  /\ matchRuns = <<>>
  /\ call = NoCall
  /\ single = [r \in Reqs |->
                 [pc |-> "idle", handler |-> "", key |-> "", ev |-> "none",
                  st |-> [status |-> NilStatus, err |-> "nil"], out |-> <<>>]]
  /\ cfg = [pc |-> "start", err |-> "nil", c |-> DefaultConfig]
  /\ cfgOut = NoOut
  /\ rcon = [pc |-> "idle", key |-> "", out |-> <<>>, calls |-> <<>>]

(***************************************************************************)
(* sync.Map.LoadOrStore and sync.Mutex.                                    *)
(***************************************************************************)
\* Faulty variant: Store instead of LoadOrStore: the new mutex replaces the entry
LoadOrStore_Store(table, key, new) == [table EXCEPT ![key] = new]

\* the table after LoadOrStore(key, new): new is stored only when key has no entry
LoadOrStore(table, key, new) ==
  IF table[key] = 0 THEN [table EXCEPT ![key] = new] ELSE table

\* Faulty variant: a TryLock that always reports success
TryLock_always(m) == TRUE

\* Faulty variant: one lock for all keys: TryLock fails while any mutex is locked
TryLock_global(m) == \A m2 \in Reqs : mutexes[m2] = "unlocked"

\* mu.TryLock(): succeeds exactly when the mutex is not locked
TryLock(m) == mutexes[m] = "unlocked"

\* respondNow: one message on the response channel of interaction r
respondNow(r, msg) == responses' = [responses EXCEPT ![r] = Append(@, msg)]

(***************************************************************************)
(* handleLifecycle, one action per step of the handler goroutine.          *)
(***************************************************************************)
\* Faulty variant: the lock is taken before the key is validated
handleLifecycle_lookup_late(r, key, sub) ==
  /\ pc[r] = "idle"
  /\ IF r = 1 THEN TRUE ELSE pc[r - 1] # "idle"
  /\ serviceKey' = [serviceKey EXCEPT ![r] = key]
  /\ subcommand' = [subcommand EXCEPT ![r] = sub]
  /\ pc' = [pc EXCEPT ![r] = "serverLock"]
  /\ UNCHANGED <<mu, locks, mutexes, bg, runEvent, responses, invocations>>
  /\ UNCHANGED <<batchVars, fleetVars, runVars, singleVars, cfgVars, rconVars>>

\* Bot.handleInteraction dispatches the interaction to HandleStart/Stop/Restart,
\* which enter handleLifecycle:
\*   srv, ok := h.cfg.Servers[serviceKey]; if !ok { respondNow(unknown); return }
\* Interactions are numbered in the order they arrive.
handleLifecycle_lookup(r, key, sub) ==
  /\ pc[r] = "idle"
  /\ IF r = 1 THEN TRUE ELSE pc[r - 1] # "idle"
  /\ serviceKey' = [serviceKey EXCEPT ![r] = key]
  /\ subcommand' = [subcommand EXCEPT ![r] = sub]
  /\ IF key \in ServerKeys
     THEN /\ pc' = [pc EXCEPT ![r] = "serverLock"]
          /\ UNCHANGED responses
     ELSE /\ respondNow(r, [kind |-> "unknown", text |-> key])
          /\ pc' = [pc EXCEPT ![r] = "returned"]
  /\ UNCHANGED <<mu, locks, mutexes, bg, runEvent, invocations>>
  /\ UNCHANGED <<batchVars, fleetVars, runVars, singleVars, cfgVars, rconVars>>

\* Faulty variant: the acceptance is sent before the lock is tried
serverLock_respondFirst(r) ==
  /\ pc[r] = "serverLock"
  /\ locks' = LoadOrStore(locks, serviceKey[r], r)
  /\ mu' = [mu EXCEPT ![r] = locks'[serviceKey[r]]]
  /\ respondNow(r, [kind |-> "accepted",
                    text |-> actionVerb(HandleAction(subcommand[r]))])
  /\ pc' = [pc EXCEPT ![r] = "tryLock"]
  /\ UNCHANGED <<serviceKey, subcommand, mutexes, bg, runEvent, invocations>>
  /\ UNCHANGED <<batchVars, fleetVars, runVars, singleVars, cfgVars, rconVars>>

\* mu := h.serverLock(serviceKey): LoadOrStore(key, &sync.Mutex{}) and the
\* value now in the table
serverLock(r) ==
  /\ pc[r] = "serverLock"
  /\ locks' = LoadOrStore(locks, serviceKey[r], r)
  /\ mu' = [mu EXCEPT ![r] = locks'[serviceKey[r]]]
  /\ pc' = [pc EXCEPT ![r] = "tryLock"]
  /\ UNCHANGED <<serviceKey, subcommand, mutexes, bg, runEvent, responses,
                 invocations>>
  /\ UNCHANGED <<batchVars, fleetVars, runVars, singleVars, cfgVars, rconVars>>

\* Faulty variant: the return after the rejection is missing
handleLifecycle_tryLock_noReturn(r) ==
  /\ pc[r] = "tryLock"
  /\ IF TryLock(mu[r])
     THEN /\ mutexes' = [mutexes EXCEPT ![mu[r]] = "locked"]
          /\ UNCHANGED responses
     ELSE /\ respondNow(r, [kind |-> "busy",
                            text |-> Servers[serviceKey[r]].DisplayName])
          /\ UNCHANGED mutexes
  /\ pc' = [pc EXCEPT ![r] = "respond"]
  /\ UNCHANGED <<serviceKey, subcommand, mu, locks, bg, runEvent, invocations>>
  /\ UNCHANGED <<batchVars, fleetVars, runVars, singleVars, cfgVars, rconVars>>

\* if !mu.TryLock() { respondNow(already being managed); return }
handleLifecycle_tryLock(r) ==
  /\ pc[r] = "tryLock"
  /\ IF TryLock(mu[r])
     THEN /\ mutexes' = [mutexes EXCEPT ![mu[r]] = "locked"]
          /\ pc' = [pc EXCEPT ![r] = "respond"]
          /\ UNCHANGED responses
     ELSE /\ respondNow(r, [kind |-> "busy",
                            text |-> Servers[serviceKey[r]].DisplayName])
          /\ pc' = [pc EXCEPT ![r] = "returned"]
          /\ UNCHANGED mutexes
  /\ UNCHANGED <<serviceKey, subcommand, mu, locks, bg, runEvent, invocations>>
  /\ UNCHANGED <<batchVars, fleetVars, runVars, singleVars, cfgVars, rconVars>>

\* respondNow(s, i, "**<verb>** <name>...", true)
handleLifecycle_respond(r) ==
  /\ pc[r] = "respond"
  /\ respondNow(r, [kind |-> "accepted",
                    text |-> actionVerb(HandleAction(subcommand[r]))])
  /\ pc' = [pc EXCEPT ![r] = "go"]
  /\ UNCHANGED <<serviceKey, subcommand, mu, locks, mutexes, bg, runEvent,
                 invocations>>
  /\ UNCHANGED <<batchVars, fleetVars, runVars, singleVars, cfgVars, rconVars>>

\* go func() { ... }(): the goroutine is started and the handler returns
handleLifecycle_go(r) ==
  /\ pc[r] = "go"
  /\ bg' = [bg EXCEPT ![r] = "ready"]
  /\ pc' = [pc EXCEPT ![r] = "returned"]
  /\ UNCHANGED <<serviceKey, subcommand, mu, locks, mutexes, runEvent, responses,
                 invocations>>
  /\ UNCHANGED <<batchVars, fleetVars, runVars, singleVars, cfgVars, rconVars>>

(***************************************************************************)
(* The background goroutine of handleLifecycle.                            *)
(***************************************************************************)
\* h.executor.Run(context.Background(), srv.Script, action, nil) is called
background_run(r) ==
  /\ bg[r] = "ready"
  /\ bg' = [bg EXCEPT ![r] = "running"]
  /\ invocations' = [invocations EXCEPT ![r] =
        Append(@, [script |-> Servers[serviceKey[r]].Script,
                   command |-> HandleAction(subcommand[r])])]
  /\ UNCHANGED <<pc, serviceKey, subcommand, mu, locks, mutexes, runEvent,
                 responses>>
  /\ UNCHANGED <<batchVars, fleetVars, runVars, singleVars, cfgVars, rconVars>>

\* what the goroutine logs for the (result, err) of Run: log.Printf writes to
\* the process log, which is no part of the program's state
LogOf(res) ==
  IF res.err # "nil" THEN "failed"
  ELSE IF res.ExitCode # 0 THEN "exited with code"
  ELSE "nothing"

\* Faulty variant: the outcome is also sent to the interaction
background_done_reports(r, ev) ==
  /\ bg[r] = "running"
  /\ bg' = [bg EXCEPT ![r] = "finished"]
  /\ runEvent' = [runEvent EXCEPT ![r] = ev]
  /\ respondNow(r, [kind |-> "outcome",
                    text |-> LogOf(Run(HandleAction(subcommand[r]), ev))])
  /\ UNCHANGED <<pc, serviceKey, subcommand, mu, locks, mutexes, invocations>>
  /\ UNCHANGED <<batchVars, fleetVars, runVars, singleVars, cfgVars, rconVars>>

\* Run returns (cmd.Run() ended as ev) and the outcome is logged
background_done(r, ev) ==
  /\ bg[r] = "running"
  /\ bg' = [bg EXCEPT ![r] = "finished"]
  /\ runEvent' = [runEvent EXCEPT ![r] = ev]
  /\ UNCHANGED <<pc, serviceKey, subcommand, mu, locks, mutexes, responses,
                 invocations>>
  /\ UNCHANGED <<batchVars, fleetVars, runVars, singleVars, cfgVars, rconVars>>

\* Faulty variant: Unlock at the end of the function instead of deferred: the early
\* return on err skips it
background_unlock_notDeferred(r) ==
  /\ bg[r] = "finished"
  /\ bg' = [bg EXCEPT ![r] = "exited"]
  /\ mutexes' = IF Run(HandleAction(subcommand[r]), runEvent[r]).err # "nil"
                THEN mutexes
                ELSE [mutexes EXCEPT ![mu[r]] = "unlocked"]
  /\ runEvent' = [runEvent EXCEPT ![r] = "none"]
  /\ UNCHANGED <<pc, serviceKey, subcommand, mu, locks, responses, invocations>>
  /\ UNCHANGED <<batchVars, fleetVars, runVars, singleVars, cfgVars, rconVars>>

\* defer mu.Unlock(): runs on every return path of the goroutine
background_unlock(r) ==
  /\ bg[r] = "finished"
  /\ bg' = [bg EXCEPT ![r] = "exited"]
  /\ mutexes' = [mutexes EXCEPT ![mu[r]] = "unlocked"]
  /\ runEvent' = [runEvent EXCEPT ![r] = "none"]
  /\ UNCHANGED <<pc, serviceKey, subcommand, mu, locks, responses, invocations>>
  /\ UNCHANGED <<batchVars, fleetVars, runVars, singleVars, cfgVars, rconVars>>

(***************************************************************************)
(* The query and RCON clients, as the batch handlers see them.             *)
(***************************************************************************)
\* how a status query on one target can end: the server answers, the info
\* query fails (refused, unreachable, timed out), the client cannot be created
QueryEvents == {"answer", "noanswer", "noclient"}

\* how an RCON call on one target can end
RconEvents == {"ok", "dialerr", "execerr"}

\* what the server behind key answers to an info query while it is up
LiveStatus(key) ==
  [Present |-> TRUE, Online |-> TRUE, Map |-> "de_dust2",
   Players |-> KeyRank(key) + 1, MaxPlayers |-> 10,
   Bots |-> IF key = "cs2" THEN 1 ELSE 0]

\* Faulty variant: a failed info query is returned as an error without a status
QueryStatus_failIsError(key, ev) ==
  CASE ev = "noclient" -> [status |-> OfflineStatus, err |-> "creating A2S client"]
    [] ev = "noanswer" -> [status |-> NilStatus, err |-> "querying info"]
    [] ev = "answer"   -> [status |-> LiveStatus(key), err |-> "nil"]

\* A2SQuerier.QueryStatus: the pair (status, err) it returns
QueryStatus(key, ev) ==
  CASE ev = "noclient" -> [status |-> OfflineStatus, err |-> "creating A2S client"]
    [] ev = "noanswer" -> [status |-> OfflineStatus, err |-> "nil"]
    [] ev = "answer"   -> [status |-> LiveStatus(key), err |-> "nil"]

\* how a player-list query on one target can end: a list with players, an
\* empty list, the query fails, the client cannot be created
PlayerEvents == {"list", "empty", "fail", "noclient"}

\* A2SQuerier.QueryPlayers: the pair (players, err) it returns; a nil slice
\* is the empty sequence
QueryPlayers(key, ev) ==
  CASE ev = "noclient" -> [players |-> <<>>, err |-> "creating A2S client"]
    [] ev = "fail"     -> [players |-> <<>>, err |-> "querying players"]
    [] ev = "empty"    -> [players |-> <<>>, err |-> "nil"]
    [] ev = "list"     -> [players |-> <<"alice", "bob">>, err |-> "nil"]

\* GorconClient.Execute: the pair (response, err) it returns
Execute(key, ev) ==
  CASE ev = "dialerr" -> [response |-> "", err |-> "connecting"]
    [] ev = "execerr" -> [response |-> "", err |-> "executing command"]
    [] ev = "ok"      -> [response |-> "Changing level", err |-> "nil"]

(***************************************************************************)
(* The reports the batch handlers build from the collected results.        *)
(***************************************************************************)
\* sort.Slice(results, key order): insertion of e into a sorted sequence
RECURSIVE InsertByKey(_, _)
InsertByKey(e, sorted) ==
  IF sorted = <<>> THEN <<e>>
  ELSE IF KeyLess(e.key, Head(sorted).key) THEN <<e>> \o sorted
  ELSE <<Head(sorted)>> \o InsertByKey(e, Tail(sorted))

\* Faulty variant: the results are left in the order of their arrival
SortByKey_unsorted(seq) == seq

RECURSIVE SortByKey(_)
SortByKey(seq) ==
  IF seq = <<>> THEN <<>> ELSE InsertByKey(Head(seq), SortByKey(Tail(seq)))

\* the keys of a set as a sequence (a range over a Go map, in some order)
RECURSIVE KeysInOrder(_)
KeysInOrder(set) ==
  IF set = {} THEN <<>>
  ELSE LET k == CHOOSE x \in set : \A y \in set : ~KeyLess(y, x)
       IN  <<k>> \o KeysInOrder(set \ {k})

\* handleStatus: the entries added for the servers whose protocol is not source
NotQueryableEntries ==
  LET keys == KeysInOrder({k \in ServerKeys : Servers[k].Protocol # "source"})
  IN  [i \in 1..Len(keys) |-> [key |-> keys[i], status |-> NilStatus]]

\* handleStatus: the category an entry is listed under ("" when under none)
CategoryOf(key) ==
  IF key \in MatchKeys THEN "match"
  ELSE IF key \in ServerKeys THEN Servers[key].Category
  ELSE ""

\* handleStatus: the line of one entry
StatusLine(e) ==
  [key |-> e.key, name |-> DisplayName(e.key),
   state |-> IF ~e.status.Present THEN "N/A"
             ELSE IF ~e.status.Online THEN "Offline"
             ELSE "Online",
   players |-> e.status.Players]

categoryNames == <<"game", "cs2", "match", "infra">>

\* handleStatus, after wg.Wait(): the embed fields, one per category that
\* has entries, each with one line per entry, sorted by key
StatusReport(res) ==
  LET sorted == SortByKey(res \o NotQueryableEntries)
      linesOf(cat) ==
        LET es == SelectSeq(sorted, LAMBDA e : CategoryOf(e.key) = cat)
        IN  [i \in 1..Len(es) |-> StatusLine(es[i])]
      fields == [i \in 1..Len(categoryNames) |->
                   [label |-> categoryNames[i], lines |-> linesOf(categoryNames[i])]]
  IN  [kind |-> "status",
       fields |-> SelectSeq(fields, LAMBDA f : f.lines # <<>>),
       total |-> 0]

\* Faulty variant: the total counts the online servers, not their players
SumPlayers_countsServers(seq) ==
  Len(SelectSeq(seq, LAMBDA e : e.status.Online))

RECURSIVE SumPlayers(_)
SumPlayers(seq) ==
  IF seq = <<>> THEN 0
  ELSE (IF Head(seq).status.Online THEN Head(seq).status.Players ELSE 0)
         + SumPlayers(Tail(seq))

\* handleAllServers, after wg.Wait(): one line per online server, sorted by key,
\* and the total of their players
PlayersReport(res) ==
  LET sorted == SortByKey(res)
      online == SelectSeq(sorted, LAMBDA e : e.status.Online)
  IN  [kind |-> "players",
       fields |-> <<[label |-> "players",
                     lines |-> [i \in 1..Len(online) |-> StatusLine(online[i])]]>>,
       total |-> SumPlayers(sorted)]

\* Faulty variant: the results that carry an error get no line
MapReport_skipErrors(res) ==
  LET ok == SelectSeq(res, LAMBDA r : r.err = "nil")
  IN  [kind |-> "map",
       fields |-> <<[label |-> "map",
                     lines |-> [i \in 1..Len(ok) |->
                                  [key |-> ok[i].key, name |-> DisplayName(ok[i].key),
                                   state |-> "changed", players |-> 0]]]>>,
       total |-> 0]

\* handleMap, after wg.Wait(): one line per result, in the order of results
MapReport(res) ==
  [kind |-> "map",
   fields |-> <<[label |-> "map",
                 lines |-> [i \in 1..Len(res) |->
                              [key |-> res[i].key, name |-> DisplayName(res[i].key),
                               state |-> IF res[i].err # "nil" THEN "failed"
                                         ELSE "changed",
                               players |-> 0]]]>>,
   total |-> 0]

Report(kind, res) ==
  CASE kind = "status"  -> StatusReport(res)
    [] kind = "players" -> PlayersReport(res)
    [] kind = "map"     -> MapReport(res)

(***************************************************************************)
(* The batch handlers: handleStatus, handleAllServers and handleMap share  *)
(* one structure.  respondDeferred; targets := ...; for each target        *)
(* wg.Add(1) and go func; wg.Wait(); build the report; follow up.          *)
(***************************************************************************)
BatchKinds == {"status", "players", "map"}

\* the server option of /ned match map: "" (all CS2 servers), a target, or a
\* key that is no CS2 RCON target
MapServerOptions == {"", "cs2", "tf2"}

\* followUp / followUpEmbed / respondDeferred: one message on the response channel
followUp(msg) == followUps' = Append(followUps, msg)

\* Faulty variant: the map handler takes matchMu before it starts its batch
batch_start_takesMatchMu(kind, key) ==
  /\ batch.pc = "idle"
  /\ kind # "map" => key = ""
  /\ matchMu = "unlocked"
  /\ matchMu' = "locked"
  /\ batch' = [pc |-> "spawn", kind |-> kind, key |-> key,
               targets |-> IF kind = "map"
                           THEN (IF key \in AllCS2RCONTargets THEN {key}
                                 ELSE AllCS2RCONTargets)
                           ELSE AllQueryTargets]
  /\ followUp([kind |-> "deferred"])
  /\ UNCHANGED <<child, outcome, resultsMu, results, slot, wg>>
  /\ UNCHANGED <<lifecycleVars, fleet, fleetOut, matchRuns, runVars, singleVars, cfgVars, rconVars>>

\* Faulty variant: a broadcast goes to the match instances only
batch_start_matchOnly(kind, key) ==
  /\ batch.pc = "idle"
  /\ kind # "map" => key = ""
  /\ IF kind = "map" /\ key # "" /\ key \notin AllCS2RCONTargets
     THEN /\ batch' = [pc |-> "done", kind |-> kind, key |-> key, targets |-> {}]
          /\ followUps' = followUps \o <<[kind |-> "deferred"],
                                         [kind |-> "error"]>>
     ELSE /\ batch' = [pc |-> "spawn", kind |-> kind, key |-> key,
                       targets |-> IF kind = "map"
                                   THEN (IF key # "" THEN {key} ELSE MatchKeys)
                                   ELSE AllQueryTargets]
          /\ followUp([kind |-> "deferred"])
  /\ UNCHANGED <<child, outcome, resultsMu, results, slot, wg>>
  /\ UNCHANGED <<lifecycleVars, fleetVars, runVars, singleVars, cfgVars, rconVars>>

\* the handler is entered: respondDeferred, and the target map is computed
batch_start(kind, key) ==
  /\ batch.pc = "idle"
  /\ kind # "map" => key = ""
  /\ IF kind = "map" /\ key # "" /\ key \notin AllCS2RCONTargets
     THEN \* followUpError(Unknown CS2 server); return
          /\ batch' = [pc |-> "done", kind |-> kind, key |-> key, targets |-> {}]
          /\ followUps' = followUps \o <<[kind |-> "deferred"],
                                         [kind |-> "error"]>>
     ELSE /\ batch' = [pc |-> "spawn", kind |-> kind, key |-> key,
                       targets |-> IF kind = "map"
                                   THEN (IF key # "" THEN {key}
                                         ELSE AllCS2RCONTargets)
                                   ELSE AllQueryTargets]
          /\ followUp([kind |-> "deferred"])
  /\ UNCHANGED <<child, outcome, resultsMu, results, slot, wg>>
  /\ UNCHANGED <<lifecycleVars, fleetVars, runVars, singleVars, cfgVars, rconVars>>

\* one iteration of the range over targets: wg.Add(1); go func(key, ...)
batch_spawn(k) ==
  /\ batch.pc = "spawn"
  /\ k \in batch.targets
  /\ child[k] = "none"
  /\ wg' = wg + 1
  /\ child' = [child EXCEPT ![k] = "call"]
  /\ UNCHANGED <<batch, outcome, resultsMu, results, slot, followUps>>
  /\ UNCHANGED <<lifecycleVars, fleetVars, runVars, singleVars, cfgVars, rconVars>>

\* the goroutine's call returns: h.querier.QueryStatus(ctx, addr) or
\* h.rcon.Execute(ctx, target.Address, target.Password, command)
child_call(k, ev) ==
  /\ child[k] = "call"
  /\ ev \in (IF batch.kind = "map" THEN RconEvents ELSE QueryEvents)
  /\ outcome' = [outcome EXCEPT ![k] = ev]
  /\ child' = [child EXCEPT ![k] = "lock"]
  /\ UNCHANGED <<batch, resultsMu, results, slot, wg, followUps>>
  /\ UNCHANGED <<lifecycleVars, fleetVars, runVars, singleVars, cfgVars, rconVars>>

\* Faulty variant: the goroutine goes on to append without holding mu
child_lock_noMutex(k) ==
  /\ child[k] = "lock"
  /\ resultsMu' = k
  /\ child' = [child EXCEPT ![k] = "read"]
  /\ UNCHANGED <<batch, outcome, results, slot, wg, followUps>>
  /\ UNCHANGED <<lifecycleVars, fleetVars, runVars, singleVars, cfgVars, rconVars>>

\* mu.Lock()
child_lock(k) ==
  /\ child[k] = "lock"
  /\ resultsMu = "free"
  /\ resultsMu' = k
  /\ child' = [child EXCEPT ![k] = "read"]
  /\ UNCHANGED <<batch, outcome, results, slot, wg, followUps>>
  /\ UNCHANGED <<lifecycleVars, fleetVars, runVars, singleVars, cfgVars, rconVars>>

\* append(results, entry), first half: the slice header of results is read
child_read(k) ==
  /\ child[k] = "read"
  /\ slot' = [slot EXCEPT ![k] = Len(results)]
  /\ child' = [child EXCEPT ![k] = "append"]
  /\ UNCHANGED <<batch, outcome, resultsMu, results, wg, followUps>>
  /\ UNCHANGED <<lifecycleVars, fleetVars, runVars, singleVars, cfgVars, rconVars>>

\* the entry the goroutine of target k appends:
\*   status, _ := QueryStatus(...); if status == nil { status = offline }
\*   statusEntry{key, status}     or     rconResult{key, resp, err}
Entry(k) ==
  IF batch.kind = "map"
  THEN LET r == Execute(k, outcome[k])
       IN  [key |-> k, response |-> r.response, err |-> r.err]
  ELSE LET st == QueryStatus(k, outcome[k]).status
       IN  [key |-> k, status |-> IF ~st.Present THEN OfflineStatus ELSE st]

\* Faulty variant: a goroutine whose call failed returns without appending
child_append_skipFailed(k) ==
  /\ child[k] = "append"
  /\ results' = IF outcome[k] \in {"answer", "ok"}
                THEN Append(SubSeq(results, 1, slot[k]), Entry(k))
                ELSE results
  /\ resultsMu' = "free"
  /\ child' = [child EXCEPT ![k] = "appended"]
  /\ UNCHANGED <<batch, outcome, slot, wg, followUps>>
  /\ UNCHANGED <<lifecycleVars, fleetVars, runVars, singleVars, cfgVars, rconVars>>

\* append(results, entry), second half: the entry is written behind the
\* length that was read and results is assigned the longer slice; mu.Unlock()
child_append(k) ==
  /\ child[k] = "append"
  /\ results' = Append(SubSeq(results, 1, slot[k]), Entry(k))
  /\ resultsMu' = "free"
  /\ child' = [child EXCEPT ![k] = "appended"]
  /\ UNCHANGED <<batch, outcome, slot, wg, followUps>>
  /\ UNCHANGED <<lifecycleVars, fleetVars, runVars, singleVars, cfgVars, rconVars>>

\* the deferred calls of the goroutine: cancel(), wg.Done()
child_done(k) ==
  /\ child[k] = "appended"
  /\ wg' = wg - 1
  /\ child' = [child EXCEPT ![k] = "exited"]
  /\ UNCHANGED <<batch, outcome, resultsMu, results, slot, followUps>>
  /\ UNCHANGED <<lifecycleVars, fleetVars, runVars, singleVars, cfgVars, rconVars>>

\* Faulty variant: the handler does not wait for the goroutines
WaitReturns_noWait == TRUE

\* wg.Wait() returns when the counter is zero
WaitReturns == wg = 0

\* the range over targets is over, wg.Wait() has returned: the report is built
\* from results and sent
batch_report ==
  /\ batch.pc = "spawn"
  /\ \A k \in batch.targets : child[k] # "none"
  /\ WaitReturns
  /\ followUp(Report(batch.kind, results))
  /\ batch' = [batch EXCEPT !.pc = "done"]
  /\ UNCHANGED <<child, outcome, resultsMu, results, slot, wg>>
  /\ UNCHANGED <<lifecycleVars, fleetVars, runVars, singleVars, cfgVars, rconVars>>

(***************************************************************************)
(* MatchExecutor and the match start/stop handlers of CS2Handler.          *)
(***************************************************************************)
\* the counts a /ned match start request carries in this model
Counts == (0 - 1)..(CS2Matches.Pro.MaxInstances + 1)

FleetOps == {"start", "stop"}

\* Faulty variant: the upper limit of the count is not checked
MatchStart_noUpperLimit(maxInstances, count) ==
  IF count <= 0
  THEN [valid |-> FALSE, command |-> "", env |-> <<>>]
  ELSE [valid |-> TRUE, command |-> "match up --count " \o ToString(count),
        env |-> <<>>]

\* MatchExecutor.Start: the validation, and the command and the environment
\* overrides (none: nil) handed to Run
MatchStart(maxInstances, count) ==
  IF count <= 0 \/ count > maxInstances
  THEN [valid |-> FALSE, command |-> "", env |-> <<>>]
  ELSE [valid |-> TRUE, command |-> "match up --count " \o ToString(count),
        env |-> <<>>]

\* Faulty variant: Stop leaves the count to the script
MatchStop_noCount(maxInstances) ==
  [valid |-> TRUE, command |-> "match down", env |-> <<>>]

\* MatchExecutor.Stop: the command and the environment overrides handed to Run
MatchStop(maxInstances) ==
  [valid |-> TRUE, command |-> "match down --count " \o ToString(maxInstances),
   env |-> <<>>]

\* h.match.Start(ctx, count) or h.match.Stop(ctx), up to the call of Run
MatchCall(op, count) ==
  IF op = "start" THEN MatchStart(CS2Matches.Pro.MaxInstances, count)
  ELSE MatchStop(CS2Matches.Pro.MaxInstances)

fleetFollowUp(f, msg) == fleetOut' = [fleetOut EXCEPT ![f] = Append(@, msg)]

\* HandleMatch dispatches to handleMatchStart or handleMatchStop:
\* respondDeferred; count := int(sub.Options[0].IntValue())
handleMatch_enter(f, op, count) ==
  /\ fleet[f].pc = "idle"
  /\ IF f = 1 THEN TRUE ELSE fleet[f - 1].pc # "idle"
  /\ op = "stop" => count = 0
  /\ fleet' = [fleet EXCEPT ![f] = [pc |-> "tryLock", op |-> op, count |-> count]]
  /\ fleetFollowUp(f, [kind |-> "deferred"])
  /\ UNCHANGED <<matchMu, matchRuns>>
  /\ UNCHANGED <<lifecycleVars, batchVars, runVars, singleVars, cfgVars, rconVars>>

\* Faulty variant: the handler goes on although the lock is taken
handleMatch_tryLock_noReturn(f) ==
  /\ fleet[f].pc = "tryLock"
  /\ matchMu' = "locked"
  /\ fleet' = [fleet EXCEPT ![f].pc = "call"]
  /\ UNCHANGED <<fleetOut, matchRuns>>
  /\ UNCHANGED <<lifecycleVars, batchVars, runVars, singleVars, cfgVars, rconVars>>

\* if !h.matchMu.TryLock() { followUpError(already in progress); return }
handleMatch_tryLock(f) ==
  /\ fleet[f].pc = "tryLock"
  /\ IF matchMu = "unlocked"
     THEN /\ matchMu' = "locked"
          /\ fleet' = [fleet EXCEPT ![f].pc = "call"]
          /\ UNCHANGED fleetOut
     ELSE /\ fleetFollowUp(f, [kind |-> "error", text |-> "already in progress"])
          /\ fleet' = [fleet EXCEPT ![f].pc = "returned"]
          /\ UNCHANGED matchMu
  /\ UNCHANGED matchRuns
  /\ UNCHANGED <<lifecycleVars, batchVars, runVars, singleVars, cfgVars, rconVars>>

\* Faulty variant: Run is entered whatever the validation says
handleMatch_call_unchecked(f) ==
  /\ fleet[f].pc = "call"
  /\ matchRuns' = Append(matchRuns, [by |-> f, script |-> CS2Matches.Script,
                                     command |-> "match up --count "
                                                   \o ToString(fleet[f].count),
                                     env |-> <<>>])
  /\ fleet' = [fleet EXCEPT ![f].pc = "running"]
  /\ UNCHANGED <<matchMu, fleetOut>>
  /\ UNCHANGED <<lifecycleVars, batchVars, runVars, singleVars, cfgVars, rconVars>>

\* h.match.Start(ctx, count) / h.match.Stop(ctx) is called: a count out of
\* range returns an error at once (followUpError, return), otherwise
\* ShellExecutor.Run is entered
handleMatch_call(f) ==
  /\ fleet[f].pc = "call"
  /\ LET c == MatchCall(fleet[f].op, fleet[f].count)
     IN  IF c.valid
         THEN /\ matchRuns' = Append(matchRuns, [by |-> f, script |-> CS2Matches.Script,
                                                 command |-> c.command,
                                                 env |-> c.env])
              /\ fleet' = [fleet EXCEPT ![f].pc = "running"]
              /\ UNCHANGED fleetOut
         ELSE /\ fleetFollowUp(f, [kind |-> "error", text |-> "Failed to start",
                                     err |-> "count must be"])
              /\ fleet' = [fleet EXCEPT ![f].pc = "unlock"]
              /\ UNCHANGED matchRuns
  /\ UNCHANGED matchMu
  /\ UNCHANGED <<lifecycleVars, batchVars, runVars, singleVars, cfgVars, rconVars>>

\* Run returns (cmd.Run() ended as ev) and the handler follows up
handleMatch_return(f, ev) ==
  /\ fleet[f].pc = "running"
  /\ LET res == Run(MatchCall(fleet[f].op, fleet[f].count).command, ev)
     IN  IF res.err # "nil"
         THEN fleetFollowUp(f, [kind |-> "error",
                                text |-> IF fleet[f].op = "start"
                                         THEN "Failed to start" ELSE "Failed to stop",
                                err |-> res.err])
         ELSE fleetFollowUp(f, [kind |-> "done",
                                text |-> IF fleet[f].op = "start"
                                         THEN "Started" ELSE "Stopped",
                                count |-> fleet[f].count,
                                stdout |-> res.Stdout])
  /\ fleet' = [fleet EXCEPT ![f].pc = "unlock"]
  /\ UNCHANGED <<matchMu, matchRuns>>
  /\ UNCHANGED <<lifecycleVars, batchVars, runVars, singleVars, cfgVars, rconVars>>

\* Faulty variant: Unlock at the end of the handler instead of deferred: the
\* return after a failed call skips it
handleMatch_unlock_notDeferred(f) ==
  /\ fleet[f].pc = "unlock"
  /\ matchMu' = IF fleetOut[f][Len(fleetOut[f])].kind = "error"
                THEN matchMu ELSE "unlocked"
  /\ fleet' = [fleet EXCEPT ![f].pc = "returned"]
  /\ UNCHANGED <<fleetOut, matchRuns>>
  /\ UNCHANGED <<lifecycleVars, batchVars, runVars, singleVars, cfgVars, rconVars>>

\* defer h.matchMu.Unlock()
handleMatch_unlock(f) ==
  /\ fleet[f].pc = "unlock"
  /\ matchMu' = "unlocked"
  /\ fleet' = [fleet EXCEPT ![f].pc = "returned"]
  /\ UNCHANGED <<fleetOut, matchRuns>>
  /\ UNCHANGED <<lifecycleVars, batchVars, runVars, singleVars, cfgVars, rconVars>>

(***************************************************************************)
(* One call of ShellExecutor.Run, for every script and command.            *)
(***************************************************************************)
\* Run is entered: the timeout is chosen, the context made, bash started
Run_enter(script, command) ==
  /\ call.phase = "idle"
  /\ call' = [NoCall EXCEPT !.phase = "running", !.script = script,
                            !.command = command, !.timeout = RunTimeout(command)]
  /\ UNCHANGED <<lifecycleVars, batchVars, fleetVars, singleVars, cfgVars, rconVars>>

\* cmd.Run() ends as ev and Run returns
Run_return(ev) ==
  /\ call.phase = "running"
  /\ call' = [call EXCEPT !.phase = "returned", !.ev = ev,
                          !.result = Run(call.command, ev)]
  /\ UNCHANGED <<lifecycleVars, batchVars, fleetVars, singleVars, cfgVars, rconVars>>

(***************************************************************************)
(* Loading a configuration and the operations that resolve a key, derive   *)
(* an instance address or report on every target under it.                 *)
(***************************************************************************)
\* the keys an interaction can carry: every key of a configuration file, the
\* match instances and a key nothing is configured under
ConfigKeys == ServerKeys \cup DOMAIN ExtraServers \cup MatchKeys \cup {"ghost"}

\* the handlers that resolve a key to an address
Resolvers == {"rcon", "map", "players", "status"}

\* the (ip, err) a handler resolves a key to: RCONHandler.resolveServer, the
\* target maps of handleMap and handleSingleServer, and the servers map of
\* handleSingleStatus
Resolve(c, handler, key) ==
  CASE handler = "rcon" ->
         [ip |-> resolveServer(c, key).Address.IP, err |-> resolveServer(c, key).err]
    [] handler = "map" ->
         IF key \in DOMAIN RCONTargets(c)
         THEN [ip |-> RCONTargets(c)[key].Address.IP, err |-> "nil"]
         ELSE [ip |-> <<>>, err |-> "Unknown CS2 server"]
    [] handler = "players" ->
         IF key \in DOMAIN QueryTargets(c)
         THEN [ip |-> QueryTargets(c)[key].IP, err |-> "nil"]
         ELSE [ip |-> <<>>, err |-> "is not queryable"]
    [] handler = "status" ->
         IF key \notin DOMAIN c.Servers
         THEN [ip |-> <<>>, err |-> "Unknown server"]
         ELSE IF c.Servers[key].Protocol = "source" /\ c.Servers[key].QueryPort > 0
         THEN [ip |-> c.Servers[key].IP, err |-> "nil"]
         ELSE [ip |-> <<>>, err |-> "Not queryable"]

\* Config.DisplayName under configuration c
DisplayNameOf(c, key) ==
  IF key \in DOMAIN c.Servers THEN c.Servers[key].DisplayName
  ELSE IF key \in MatchKeys
       THEN c.CS2Matches.Pro.DisplayPrefix \o " "
              \o ToString(CHOOSE i \in 1..c.CS2Matches.Pro.MaxInstances :
                            MatchKey(i) = key)
       ELSE key

\* handleStatus under configuration c, evs[k] being how the query of target k
\* ends: the lines of the embed, in the order of its fields
handleStatusOf(c, evs) ==
  LET keys == KeysInOrder(DOMAIN QueryTargets(c))
      queried == [i \in 1..Len(keys) |->
                    [key |-> keys[i],
                     status |-> QueryStatus(keys[i], evs[keys[i]]).status]]
      na == KeysInOrder({k \in DOMAIN c.Servers : c.Servers[k].Protocol # "source"})
      notQueryable == [i \in 1..Len(na) |-> [key |-> na[i], status |-> NilStatus]]
      sorted == SortByKey(queried \o notQueryable)
      categoryOf(key) ==
        IF key \in MatchKeys THEN "match"
        ELSE IF key \in DOMAIN c.Servers THEN c.Servers[key].Category
        ELSE ""
      linesOf(cat) ==
        LET es == SelectSeq(sorted, LAMBDA e : categoryOf(e.key) = cat)
        IN  [i \in 1..Len(es) |->
               [category |-> cat, key |-> es[i].key,
                name |-> DisplayNameOf(c, es[i].key),
                state |-> IF ~es[i].status.Present THEN "N/A"
                          ELSE IF ~es[i].status.Online THEN "Offline"
                          ELSE "Online"]]
  IN  linesOf("game") \o linesOf("cs2") \o linesOf("match") \o linesOf("infra")

\* config.Load: Validate decides whether the process gets the configuration
Load(c) ==
  /\ cfg.pc = "start"
  /\ cfg' = [pc |-> IF Validate(c) = "nil" THEN "loaded" ELSE "rejected",
             err |-> Validate(c), c |-> c]
  /\ UNCHANGED <<cfgOut, lifecycleVars, batchVars, fleetVars, runVars, singleVars, rconVars>>

\* one handler resolves the key of an interaction
resolve(handler, key) ==
  /\ cfg.pc = "loaded"
  /\ cfgOut' = [NoOut EXCEPT !.op = handler, !.key = key,
                             !.ip = Resolve(cfg.c, handler, key).ip,
                             !.err = Resolve(cfg.c, handler, key).err]
  /\ UNCHANGED <<cfg, lifecycleVars, batchVars, fleetVars, runVars, singleVars, rconVars>>

\* the address of match instance n is derived
instanceIP(n) ==
  /\ cfg.pc = "loaded"
  /\ cfgOut' = [NoOut EXCEPT !.op = "instanceIP", !.n = n,
                             !.ip = InstanceIP(cfg.c.CS2Matches.Pro, n)]
  /\ UNCHANGED <<cfg, lifecycleVars, batchVars, fleetVars, runVars, singleVars, rconVars>>

\* the status of every target is reported
statusAll(evs) ==
  /\ cfg.pc = "loaded"
  /\ cfgOut' = [NoOut EXCEPT !.op = "statusAll",
                             !.lines = handleStatusOf(cfg.c, evs)]
  /\ UNCHANGED <<cfg, lifecycleVars, batchVars, fleetVars, runVars, singleVars, rconVars>>

(***************************************************************************)
(* RCONHandler.Handle: one /ned rcon interaction under the loaded          *)
(* configuration.                                                          *)
(***************************************************************************)
\* Faulty variant: the return after the error of resolveServer is missing
rcon_enter_noReturn(key) ==
  /\ cfg.pc = "loaded"
  /\ rcon.pc = "idle"
  /\ LET res == resolveServer(cfg.c, key)
     IN  rcon' = [pc |-> "execute", key |-> key,
                  out |-> IF res.err # "nil"
                          THEN <<[kind |-> "deferred"],
                                 [kind |-> "error", text |-> res.err]>>
                          ELSE <<[kind |-> "deferred"]>>,
                  calls |-> <<[Address |-> res.Address, Password |-> res.Password]>>]
  /\ UNCHANGED <<lifecycleVars, batchVars, fleetVars, runVars, singleVars, cfgVars>>

\* respondDeferred; resolveServer(serverKey): an error is followed up and the
\* handler returns, otherwise h.rcon.Execute is called
rcon_enter(key) ==
  /\ cfg.pc = "loaded"
  /\ rcon.pc = "idle"
  /\ LET res == resolveServer(cfg.c, key)
     IN  IF res.err # "nil"
         THEN rcon' = [pc |-> "done", key |-> key,
                       out |-> <<[kind |-> "deferred"],
                                 [kind |-> "error", text |-> res.err]>>,
                       calls |-> <<>>]
         ELSE rcon' = [pc |-> "execute", key |-> key,
                       out |-> <<[kind |-> "deferred"]>>,
                       calls |-> <<[Address |-> res.Address,
                                    Password |-> res.Password]>>]
  /\ UNCHANGED <<lifecycleVars, batchVars, fleetVars, runVars, singleVars, cfgVars>>

\* h.rcon.Execute returns and the handler follows up
rcon_return(ev) ==
  /\ rcon.pc = "execute"
  /\ rcon' = [rcon EXCEPT
       !.pc = "done",
       !.out = Append(@, IF Execute(rcon.key, ev).err # "nil"
                         THEN [kind |-> "error", text |-> "RCON failed on"]
                         ELSE [kind |-> "message", text |-> "RCON"])]
  /\ UNCHANGED <<lifecycleVars, batchVars, fleetVars, runVars, singleVars, cfgVars>>

(***************************************************************************)
(* The single-server requests: PlayersHandler.handleSingleServer and       *)
(* ServerHandler.handleSingleStatus.                                       *)
(***************************************************************************)
SingleHandlers == {"players", "status"}

\* the keys a single-server request carries in this model
SingleKeys == AllTargets \cup ServerKeys \cup {"ghost"}

\* handleSingleStatus: the Address field, when the server has a port
AddressFields(key) ==
  IF Servers[key].Port > 0
  THEN <<[Name |-> "Address", Value |-> ToString(Servers[key].Port)]>>
  ELSE <<>>

\* the fields the embed gets from an online status
OnlineFields(handler, st) ==
  (IF handler = "status" THEN <<[Name |-> "Status", Value |-> "Online"]>> ELSE <<>>)
    \o <<[Name |-> "Map", Value |-> st.Map],
         [Name |-> "Players", Value |-> <<st.Players, st.MaxPlayers>>]>>
    \o (IF handler = "status" THEN <<[Name |-> "Latency", Value |-> "ms"]>> ELSE <<>>)
    \o (IF st.Bots > 0 THEN <<[Name |-> "Bots", Value |-> st.Bots]>> ELSE <<>>)

\* the field the embed gets from the player list, if it has players
PlayerFields(players) ==
  IF Len(players) > 0
  THEN <<[Name |-> "Connected Players", Value |-> players]>>
  ELSE <<>>

\* the handler is entered: respondDeferred, and the key is looked up, in
\* AllQueryTargets by the players handler, in cfg.Servers by the status handler
single_enter(r, handler, key) ==
  /\ single[r].pc = "idle"
  /\ IF r = 1 THEN TRUE ELSE single[r - 1].pc # "idle"
  /\ LET deferred == <<[kind |-> "deferred"]>>
         queryable ==
           IF handler = "players" THEN key \in AllQueryTargets
           ELSE Servers[key].Protocol = "source" /\ Servers[key].QueryPort > 0
     IN  IF (handler = "players" /\ key \notin AllQueryTargets)
              \/ (handler = "status" /\ key \notin ServerKeys)
         THEN single' = [single EXCEPT ![r] = [single[r] EXCEPT
                !.pc = "done", !.handler = handler, !.key = key,
                !.out = deferred \o <<[kind |-> "error",
                                       text |-> IF handler = "players"
                                                THEN "is not queryable"
                                                ELSE "Unknown server"]>>]]
         ELSE IF queryable
         THEN single' = [single EXCEPT ![r] = [single[r] EXCEPT
                !.pc = "status", !.handler = handler, !.key = key,
                !.out = deferred]]
         ELSE single' = [single EXCEPT ![r] = [single[r] EXCEPT
                !.pc = "done", !.handler = handler, !.key = key,
                !.out = deferred \o
                  <<[kind |-> "embed", title |-> DisplayName(key),
                     fields |-> AddressFields(key) \o
                                <<[Name |-> "Status", Value |-> "Not queryable"]>>]>>]]
  /\ UNCHANGED <<lifecycleVars, batchVars, fleetVars, runVars, cfgVars, rconVars>>

\* h.querier.QueryStatus(ctx, addr) returns; an error, a nil status or an
\* offline status ends the request
single_status(r, ev) ==
  /\ single[r].pc = "status"
  /\ LET st == QueryStatus(single[r].key, ev)
         off == st.err # "nil" \/ ~st.status.Present \/ ~st.status.Online
     IN  single' = [single EXCEPT ![r] = [single[r] EXCEPT
           !.st = st,
           !.ev = ev,
           !.pc = IF off THEN "done" ELSE "players",
           !.out = IF ~off THEN @
                   ELSE IF single[r].handler = "players"
                   THEN Append(@, [kind |-> "error",
                                   text |-> "is offline or unreachable"])
                   ELSE Append(@, [kind |-> "embed", title |-> DisplayName(single[r].key),
                                   fields |-> AddressFields(single[r].key) \o
                                     <<[Name |-> "Status", Value |-> "Offline"]>>])]]
  /\ UNCHANGED <<lifecycleVars, batchVars, fleetVars, runVars, cfgVars, rconVars>>

\* Faulty variant: a failed player-list query ends the request with an error
single_players_failIsError(r, ev) ==
  /\ single[r].pc = "players"
  /\ LET pl == QueryPlayers(single[r].key, ev)
     IN  single' = [single EXCEPT ![r] = [single[r] EXCEPT
           !.pc = "done",
           !.out = IF pl.err # "nil"
                   THEN Append(@, [kind |-> "error",
                                   text |-> "is offline or unreachable"])
                   ELSE Append(@, [kind |-> "embed", title |-> DisplayName(single[r].key),
                                   fields |-> OnlineFields(single[r].handler,
                                                           single[r].st.status)
                                                \o PlayerFields(pl.players)])]]
  /\ UNCHANGED <<lifecycleVars, batchVars, fleetVars, runVars, cfgVars, rconVars>>

\* players, _ := h.querier.QueryPlayers(ctx, addr); the embed is completed and
\* sent
single_players(r, ev) ==
  /\ single[r].pc = "players"
  /\ LET pl == QueryPlayers(single[r].key, ev)
     IN  single' = [single EXCEPT ![r] = [single[r] EXCEPT
           !.pc = "done",
           !.out = Append(@, [kind |-> "embed", title |-> DisplayName(single[r].key),
                              fields |-> (IF single[r].handler = "status"
                                          THEN AddressFields(single[r].key) ELSE <<>>)
                                           \o OnlineFields(single[r].handler,
                                                           single[r].st.status)
                                           \o PlayerFields(pl.players),
                              pev |-> ev])]]
  /\ UNCHANGED <<lifecycleVars, batchVars, fleetVars, runVars, cfgVars, rconVars>>

Next ==
  \/ \E r \in Reqs, key \in RequestKeys, sub \in Subcommands :
        handleLifecycle_lookup(r, key, sub)
  \/ \E r \in Reqs : serverLock(r)
  \/ \E r \in Reqs : handleLifecycle_tryLock(r)
  \/ \E r \in Reqs : handleLifecycle_respond(r)
  \/ \E r \in Reqs : handleLifecycle_go(r)
  \/ \E r \in Reqs : background_run(r)
  \/ \E r \in Reqs, ev \in RunEvents : background_done(r, ev)
  \/ \E r \in Reqs : background_unlock(r)

Spec == Init /\ [][Next]_vars

BatchNext ==
  \/ \E kind \in BatchKinds, key \in MapServerOptions : batch_start(kind, key)
  \/ \E k \in AllTargets : batch_spawn(k)
  \/ \E k \in AllTargets, ev \in QueryEvents \cup RconEvents : child_call(k, ev)
  \/ \E k \in AllTargets : child_lock(k)
  \/ \E k \in AllTargets : child_read(k)
  \/ \E k \in AllTargets : child_append(k)
  \/ \E k \in AllTargets : child_done(k)
  \/ batch_report

\* one batch interaction on its own
BatchSpec == Init /\ [][BatchNext]_vars

FleetNext ==
  \/ \E f \in Reqs, op \in FleetOps, count \in Counts : handleMatch_enter(f, op, count)
  \/ \E f \in Reqs : handleMatch_tryLock(f)
  \/ \E f \in Reqs : handleMatch_call(f)
  \/ \E f \in Reqs, ev \in RunEvents : handleMatch_return(f, ev)
  \/ \E f \in Reqs : handleMatch_unlock(f)

\* the match start/stop interactions on their own
FleetSpec == Init /\ [][FleetNext]_vars

\* the steps of a /ned match map interaction
MapNext ==
  \/ \E key \in MapServerOptions : batch_start("map", key)
  \/ \E k \in AllCS2RCONTargets : batch_spawn(k)
  \/ \E k \in AllCS2RCONTargets, ev \in RconEvents : child_call(k, ev)
  \/ \E k \in AllCS2RCONTargets : child_lock(k)
  \/ \E k \in AllCS2RCONTargets : child_read(k)
  \/ \E k \in AllCS2RCONTargets : child_append(k)
  \/ \E k \in AllCS2RCONTargets : child_done(k)
  \/ batch_report

\* one match start/stop interaction next to a map broadcast: the subcommands
\* of /ned match, each handled on its own goroutine
FleetMapNext ==
  \/ \E op \in FleetOps, count \in Counts : handleMatch_enter(1, op, count)
  \/ handleMatch_tryLock(1)
  \/ handleMatch_call(1)
  \/ \E ev \in RunEvents : handleMatch_return(1, ev)
  \/ handleMatch_unlock(1)
  \/ MapNext

FleetMapSpec == Init /\ [][FleetMapNext]_vars

RunNext ==
  \/ \E script \in Scripts, command \in Commands : Run_enter(script, command)
  \/ \E ev \in RunEvents : Run_return(ev)

\* single calls of ShellExecutor.Run
RunSpec == Init /\ [][RunNext]_vars

SingleNext ==
  \/ \E r \in Reqs, handler \in SingleHandlers, key \in SingleKeys :
        single_enter(r, handler, key)
  \/ \E r \in Reqs, ev \in QueryEvents : single_status(r, ev)
  \/ \E r \in Reqs, ev \in PlayerEvents : single_players(r, ev)

\* the single-server status and players interactions on their own
SingleSpec == Init /\ [][SingleNext]_vars

ConfigNext ==
  \/ \E c \in Configs : Load(c)
  \/ \E handler \in Resolvers, key \in ConfigKeys : resolve(handler, key)
  \/ \E n \in 1..cfg.c.CS2Matches.Pro.MaxInstances : instanceIP(n)
  \/ \E evs \in [DOMAIN QueryTargets(cfg.c) -> {"answer", "noanswer"}] :
        statusAll(evs)

\* loading a configuration and the operations on it, on their own
ConfigSpec == Init /\ [][ConfigNext]_vars

RconNext ==
  \/ \E c \in Configs : Load(c)
  \/ \E key \in ConfigKeys : rcon_enter(key)
  \/ \E ev \in RconEvents : rcon_return(ev)

\* the interactions that send a command to a server by its key: /ned rcon
\* under the configuration that was loaded, /ned match map under the default
\* configuration, each kind on its own
CommandNext ==
  \/ batch.pc = "idle" /\ RconNext
  \/ cfg.pc = "start" /\ MapNext

CommandSpec == Init /\ [][CommandNext]_vars

\* the kinds of batch that query: /ned status and /ned players without a server
QueryKinds == {"status", "players"}

\* a query batch next to one lifecycle request or one match start/stop, each
\* on its own goroutine
QueryLockNext ==
  \/ \E kind \in QueryKinds : batch_start(kind, "")
  \/ \E k \in AllQueryTargets : batch_spawn(k)
  \/ \E k \in AllQueryTargets, ev \in {"answer", "noanswer"} : child_call(k, ev)
  \/ \E k \in AllQueryTargets : child_lock(k)
  \/ \E k \in AllQueryTargets : child_read(k)
  \/ \E k \in AllQueryTargets : child_append(k)
  \/ \E k \in AllQueryTargets : child_done(k)
  \/ batch_report
  \/ fleet[1].pc = "idle" /\ handleLifecycle_lookup(1, "tf2", "restart")
  \/ serverLock(1)
  \/ handleLifecycle_tryLock(1)
  \/ handleLifecycle_respond(1)
  \/ handleLifecycle_go(1)
  \/ background_run(1)
  \/ background_done(1, "exit0")
  \/ background_unlock(1)
  \/ \E op \in FleetOps :
        pc[1] = "idle" /\ handleMatch_enter(1, op, IF op = "start" THEN 1 ELSE 0)
  \/ handleMatch_tryLock(1)
  \/ handleMatch_call(1)
  \/ handleMatch_return(1, "exit0")
  \/ handleMatch_unlock(1)

QueryLockSpec == Init /\ [][QueryLockNext]_vars

\* two lifecycle requests, the first on tf2 and the second on tf2 or cs2, next
\* to one match start/stop and one map broadcast, each on its own goroutine
MixedNext ==
  \/ handleLifecycle_lookup(1, "tf2", "restart")
  \/ \E key \in {"tf2", "cs2"} : handleLifecycle_lookup(2, key, "restart")
  \/ \E r \in {1, 2} : serverLock(r)
  \/ \E r \in {1, 2} : handleLifecycle_tryLock(r)
  \/ \E r \in {1, 2} : handleLifecycle_respond(r)
  \/ \E r \in {1, 2} : handleLifecycle_go(r)
  \/ \E r \in {1, 2} : background_run(r)
  \/ \E r \in {1, 2} : background_done(r, "exit0")
  \/ \E r \in {1, 2} : background_unlock(r)
  \/ \E op \in FleetOps : handleMatch_enter(1, op, IF op = "start" THEN 1 ELSE 0)
  \/ handleMatch_tryLock(1)
  \/ handleMatch_call(1)
  \/ handleMatch_return(1, "exit0")
  \/ handleMatch_unlock(1)
  \/ batch_start("map", "")
  \/ \E k \in AllCS2RCONTargets : batch_spawn(k)
  \/ \E k \in AllCS2RCONTargets : child_call(k, "ok")
  \/ \E k \in AllCS2RCONTargets : child_lock(k)
  \/ \E k \in AllCS2RCONTargets : child_read(k)
  \/ \E k \in AllCS2RCONTargets : child_append(k)
  \/ \E k \in AllCS2RCONTargets : child_done(k)
  \/ batch_report

MixedSpec == Init /\ [][MixedNext]_vars

\* no interaction of the kind has arrived
LifecycleIdle == \A r \in Reqs : pc[r] = "idle"

FleetIdle == \A f \in Reqs : fleet[f].pc = "idle"

BatchIdle == batch.pc = "idle"

\* the interactions that take a lock (lifecycle requests, match start/stop,
\* batches), each kind on its own
LockNext ==
  \/ FleetIdle /\ BatchIdle /\ Next
  \/ LifecycleIdle /\ BatchIdle /\ FleetNext
  \/ LifecycleIdle /\ FleetIdle /\ BatchNext

LockSpec == Init /\ [][LockNext]_vars

\* the steps of the goroutines of interaction r after its arrival: at most one
\* of them is enabled at a time (the handler, then its background goroutine)
GoroutineStep(r) ==
  \/ serverLock(r)
  \/ handleLifecycle_tryLock(r)
  \/ handleLifecycle_respond(r)
  \/ handleLifecycle_go(r)
  \/ background_run(r)
  \/ \E ev \in RunEvents : background_done(r, ev)
  \/ background_unlock(r)

\* The Go scheduler runs every runnable goroutine, and Run puts a deadline on
\* the script (exec.CommandContext with context.WithTimeout), so every step
\* of a handler and of a background goroutine that can be taken is taken.
Fairness == \A r \in Reqs : WF_vars(GoroutineStep(r))

FairSpec == Spec /\ Fairness

(***************************************************************************)
(* Vocabulary of the properties.                                           *)
(***************************************************************************)
\* request r has acquired the mutex of its server and not yet released it
Holds(r) ==
  pc[r] \in {"respond", "go"} \/ bg[r] \in {"ready", "running", "finished"}

\* request r is inside its executor.Run call
Executing(r) == bg[r] = "running"

\* the kinds of the responses request r has received
Kinds(r) == {responses[r][i].kind : i \in 1..Len(responses[r])}

Accepted(r) == "accepted" \in Kinds(r)
Rejected(r) == "busy" \in Kinds(r)

\* the script command the interface gives each subcommand (start, stop, restart)
VerbOf(sub) ==
  CASE sub = "start"   -> "up"
    [] sub = "stop"    -> "down"
    [] sub = "restart" -> "restart"

(***************************************************************************)
(* C1. In every reachable state and for every target key, at most one      *)
(* lifecycle operation (start, stop or restart in any mix) is executing    *)
(* its Process Runner call against that key.                               *)
(***************************************************************************)
C1_OneRunnerPerKey ==
  \A k \in RequestKeys :
    Cardinality({r \in Reqs : serviceKey[r] = k /\ Executing(r)}) <= 1

\* one operation is running on a key while another request on the same key,
\* with another verb, has been turned away
C1_Witness ==
  \E r1, r2 \in Reqs :
    /\ r1 # r2
    /\ serviceKey[r1] = serviceKey[r2]
    /\ subcommand[r1] # subcommand[r2]
    /\ Executing(r1)
    /\ Rejected(r2)

(***************************************************************************)
(* C2. Two lifecycle requests on the same key that race while the lock of  *)
(* the key is free (both stand before their TryLock and the mutex is       *)
(* unlocked) share one mutex; the first to try the lock is accepted, and   *)
(* from then until the lock is released a request that tries the lock is   *)
(* answered already-in-progress: exactly one Accepted and one rejection,   *)
(* never two Accepted and never two rejections.                            *)
(***************************************************************************)
C2_RaceOneAccepted ==
  [][\A r1, r2 \in Reqs :
       (r1 # r2 /\ serviceKey[r1] = serviceKey[r2]) =>
         /\ \* the racers hold the same mutex
            (pc[r1] = "tryLock" /\ pc[r2] = "tryLock") => mu[r1] = mu[r2]
         /\ \* the first of two racers on a free lock is accepted
            (pc[r1] = "tryLock" /\ pc[r2] = "tryLock"
               /\ mutexes[mu[r1]] = "unlocked" /\ pc'[r1] # pc[r1])
              => (pc'[r1] = "respond" /\ responses'[r1] = <<>>)
         /\ \* the other one, trying while the first holds the lock, is rejected
            (Holds(r1) /\ pc[r2] = "tryLock" /\ pc'[r2] # pc[r2])
              => (pc'[r2] = "returned" /\ Rejected(r2)' /\ ~Accepted(r2)'
                    /\ bg'[r2] = "none")
  ]_vars

\* r2 created the table entry, r1 won the lock r2 was about to try, and r2
\* was rejected: both stood before TryLock while the lock was free
C2_Witness ==
  \E r1, r2 \in Reqs :
    /\ r1 # r2
    /\ serviceKey[r1] = serviceKey[r2]
    /\ mu[r1] = r2 /\ mu[r2] = r2
    /\ Accepted(r1) /\ Holds(r1)
    /\ Rejected(r2) /\ pc[r2] = "returned"

(***************************************************************************)
(* C3. A request rejected as already-in-progress is never queued: it has   *)
(* no background goroutine and no Process Runner invocation in any later   *)
(* state.  An accepted request has at most one invocation, and once its    *)
(* goroutine has called Run exactly one, with the script of its target and *)
(* the verb of its subcommand.                                             *)
(***************************************************************************)
C3_RejectedNeverRuns ==
  \A r \in Reqs :
    /\ (Rejected(r) \/ "unknown" \in Kinds(r)) =>
          (bg[r] = "none" /\ invocations[r] = <<>> /\ ~Holds(r))
    /\ Len(invocations[r]) <= 1
    /\ invocations[r] # <<>> => Accepted(r)
    /\ (Accepted(r) /\ pc[r] = "returned") => bg[r] # "none"
    /\ bg[r] \in {"running", "finished", "exited"} =>
          invocations[r] = <<[script  |-> Servers[serviceKey[r]].Script,
                              command |-> VerbOf(subcommand[r])]>>

\* the accepted stop has run to its end and the rejected request, which has
\* long returned, still has no invocation
C3_Witness ==
  \E r1, r2 \in Reqs :
    /\ r1 # r2
    /\ serviceKey[r1] = serviceKey[r2]
    /\ subcommand[r1] = "stop"
    /\ bg[r1] = "exited" /\ Len(invocations[r1]) = 1
    /\ Rejected(r2) /\ pc[r2] = "returned" /\ invocations[r2] = <<>>

(***************************************************************************)
(* C4. Once the background execution of an accepted operation on a key has *)
(* finished, whatever its outcome, the lock of the key is free unless a    *)
(* later request holds it, and a request that then tries the lock is       *)
(* accepted: the goroutine's last step, from every outcome of Run,         *)
(* unlocks the mutex of its key.                                           *)
(***************************************************************************)
C4_ReleasedAfterFinish ==
  [][\A r \in Reqs :
       /\ \* the goroutine exits through Unlock, whatever Run returned
          (bg[r] = "finished" /\ bg'[r] # bg[r]) =>
             (bg'[r] = "exited" /\ mutexes'[mu[r]] = "unlocked")
       /\ \* after it, the lock is free unless someone else holds it
          (bg[r] = "exited"
             /\ \A r2 \in Reqs : (serviceKey[r2] = serviceKey[r]) => ~Holds(r2))
            => mutexes[locks[serviceKey[r]]] = "unlocked"
       /\ \* and the next request that tries it is accepted
          \A r2 \in Reqs :
            (bg[r] = "exited" /\ serviceKey[r2] = serviceKey[r]
               /\ pc[r2] = "tryLock" /\ pc'[r2] # pc[r2]
               /\ \A r3 \in Reqs : (serviceKey[r3] = serviceKey[r]) => ~Holds(r3))
              => pc'[r2] = "respond"
  ]_vars

\* a second operation holds the lock of a key whose first operation is over
C4_Witness ==
  \E r1, r2 \in Reqs :
    /\ r1 # r2
    /\ serviceKey[r1] = serviceKey[r2]
    /\ bg[r1] = "exited"
    /\ Accepted(r2) /\ Holds(r2)

(***************************************************************************)
(* C5. No target is blocked for ever: under fair scheduling every accepted *)
(* operation finishes its Run call and releases the lock of its key, so    *)
(* every locked mutex is eventually unlocked again.  ([]<>P is the same as *)
(* ~P ~> P: whenever the lock is held, it is later released.)              *)
(***************************************************************************)
C5_LockEventuallyFree ==
  /\ \A r \in Reqs : []<>(~Holds(r))
  /\ \A m \in Reqs : []<>(mutexes[m] = "unlocked")

\* a Run call that ended in an error (timeout of a stop) and still holds the lock
C5_Witness ==
  \E r \in Reqs :
    /\ bg[r] = "finished"
    /\ subcommand[r] # "start"
    /\ runEvent[r] = "deadline"
    /\ mutexes[mu[r]] = "locked"

(***************************************************************************)
(* C6. A lifecycle request for a key that is no configured server is       *)
(* answered unknown-target before any lock attempt: it gets no mutex, no   *)
(* table entry is created for its key, nothing is locked or run, and the   *)
(* lock table only ever holds configured server keys.                      *)
(***************************************************************************)
C6_UnknownTargetNoLock ==
  /\ \A k \in RequestKeys : locks[k] # 0 => k \in ServerKeys
  /\ \A r \in Reqs :
       (pc[r] # "idle" /\ serviceKey[r] \notin ServerKeys) =>
          /\ pc[r] = "returned"
          /\ Kinds(r) = {"unknown"} /\ Len(responses[r]) = 1
          /\ mu[r] = 0
          /\ \A k \in RequestKeys : locks[k] # r
          /\ bg[r] = "none"
          /\ invocations[r] = <<>>

\* an unknown key was turned away while an operation on a configured key runs
C6_Witness ==
  \E r1, r2 \in Reqs :
    /\ serviceKey[r1] = "ghost" /\ "unknown" \in Kinds(r1)
    /\ Executing(r2)

(***************************************************************************)
(* C7. The acceptance is sent after the lock of the target is acquired and *)
(* before the background Run call starts, and the handler returns without  *)
(* waiting for that call: when it returns the goroutine has not run yet.   *)
(***************************************************************************)
C7_AcceptedBetweenLockAndRun ==
  [][\A r \in Reqs :
       /\ (~Accepted(r) /\ Accepted(r)') =>
             /\ mu[r] # 0 /\ mu[r] = locks[serviceKey[r]]
             /\ mutexes[mu[r]] = "locked"
             /\ \A r2 \in Reqs : (r2 # r /\ mu[r2] = mu[r]) => ~Holds(r2)
             /\ bg[r] = "none" /\ invocations[r] = <<>>
       /\ (invocations[r] = <<>> /\ invocations'[r] # <<>>) =>
             (Accepted(r) /\ pc[r] = "returned")
       /\ (pc[r] # "returned" /\ pc'[r] = "returned" /\ Accepted(r)') =>
             (bg'[r] = "ready" /\ invocations'[r] = <<>>)
  ]_vars

\* the handler has returned and the script is still running
C7_Witness ==
  \E r \in Reqs : pc[r] = "returned" /\ Accepted(r) /\ Executing(r)

(***************************************************************************)
(* C8. Every lifecycle request receives exactly one response, of kind      *)
(* unknown, busy or accepted, and the steps of the background goroutine    *)
(* (Run returning with any outcome, the unlock) send nothing and change    *)
(* no lock but the one of their own target.                                *)
(***************************************************************************)
C8_OneResponseAndFrame ==
  [][\A r \in Reqs :
       /\ Len(responses'[r]) <= 1
       /\ pc'[r] = "returned" =>
            (Len(responses'[r]) = 1
               /\ responses'[r][1].kind \in {"unknown", "busy", "accepted"})
       /\ (bg[r] \in {"ready", "running", "finished"} /\ bg'[r] # bg[r]) =>
            /\ responses' = responses
            /\ locks' = locks
            /\ pc' = pc
            /\ \A m \in Reqs : m # mu[r] => mutexes'[m] = mutexes[m]
  ]_vars

\* an operation is over, with its single response, beside a rejected request
C8_Witness ==
  \E r1, r2 \in Reqs :
    /\ bg[r1] = "exited" /\ Len(responses[r1]) = 1
    /\ Rejected(r2) /\ Len(responses[r2]) = 1

(***************************************************************************)
(* Batch vocabulary.                                                       *)
(***************************************************************************)
\* wg.Wait() has returned and the handler has sent its report
Reported == batch.pc = "done" /\ batch.targets # {}

\* the positions of results that hold an entry of target k
EntriesOf(k) == {i \in 1..Len(results) : results[i].key = k}

\* the lines of the report the handler sent
ReportLines ==
  LET rep == followUps[Len(followUps)]
  IN  UNION {{f.lines[i] : i \in 1..Len(f.lines)} :
               f \in {rep.fields[j] : j \in 1..Len(rep.fields)}}

\* C9: once the join of a batch status or players query has returned, the
\* collected results hold exactly one entry for each requested target key; the
\* entry of a target that answered carries its live data, the entry of a target
\* whose query failed or timed out is present and marked offline.
C9_CompleteResultSet ==
  (Reported /\ batch.kind \in {"status", "players"}) =>
    /\ batch.targets = AllQueryTargets
    /\ Len(results) = Cardinality(batch.targets)
    /\ \A k \in batch.targets :
         /\ Cardinality(EntriesOf(k)) = 1
         /\ \A i \in EntriesOf(k) :
              results[i].status = IF outcome[k] = "answer"
                                  THEN LiveStatus(k)
                                  ELSE OfflineStatus

\* a status batch over all targets has joined; one target answered, one did
\* not answer, for one the client could not be created
C9_Witness ==
  /\ Reported
  /\ batch.kind = "status"
  /\ \E a, b, c \in batch.targets :
       /\ outcome[a] = "answer"
       /\ outcome[b] = "noanswer"
       /\ outcome[c] = "noclient"
       /\ \E i \in EntriesOf(b) : ~results[i].status.Online
       /\ \E i \in EntriesOf(a) : results[i].status.Online

\* what the report says about target k, given how its call ended
CoveredBy(k, lines) ==
  CASE batch.kind = "map" ->
         \E l \in lines :
           /\ l.key = k
           /\ l.state = IF outcome[k] = "ok" THEN "changed" ELSE "failed"
    [] batch.kind = "status" ->
         \E l \in lines :
           /\ l.key = k
           /\ l.state = IF outcome[k] = "answer" THEN "Online" ELSE "Offline"
    [] batch.kind = "players" ->
         (outcome[k] = "answer") = (\E l \in lines : l.key = k)

\* C10: a batch (status, players, map broadcast) has sent its report only when
\* every per-target goroutine has written its result and finished, and the
\* report accounts for every target, never for a subset of them.
C10_ReportAfterJoin ==
  Reported =>
    /\ \A k \in batch.targets :
         /\ child[k] = "exited"
         /\ EntriesOf(k) # {}
         /\ CoveredBy(k, ReportLines)
    /\ wg = 0

\* a map broadcast over more than one target has sent its report; one target
\* failed and one changed
C10_Witness ==
  /\ Reported
  /\ batch.kind = "map"
  /\ \E a, b \in batch.targets :
       /\ outcome[a] = "ok"
       /\ outcome[b] = "execerr"
       /\ child[a] = "exited"
       /\ child[b] = "exited"

\* the call on target k failed (error or timeout)
Failed(k) == outcome[k] \in {"noanswer", "noclient", "dialerr", "execerr"}

\* what the entry of target k must say, given only how k's own call ended
OwnResult(e, k) ==
  /\ e.key = k
  /\ IF batch.kind = "map"
     THEN (e.err = "nil") = (outcome[k] = "ok")
     ELSE /\ e.status.Online = (outcome[k] = "answer")
          /\ e.status.Online => e.status = LiveStatus(k)

\* C11: within a batch every step leaves the entries already collected as they
\* are, a goroutine that appends adds one entry that says how its own call
\* ended, and the step of one goroutine moves no sibling and does not end the
\* batch; so a failed child drops, changes or overwrites no sibling's result.
C11_SiblingsIndependent ==
  [][/\ Len(results') >= Len(results)
     /\ \A i \in 1..Len(results) : results'[i] = results[i]
     /\ \A k \in AllTargets :
          child'[k] # child[k] =>
            /\ \A j \in AllTargets \ {k} :
                 child'[j] = child[j] /\ outcome'[j] = outcome[j]
            /\ batch' = batch
            /\ (child'[k] = "appended") =>
                 /\ Len(results') = Len(results) + 1
                 /\ OwnResult(results'[Len(results')], k)]_vars

\* a child whose call failed has appended its entry, a sibling that answered
\* holds the mutex in the middle of its append, a third waits for the mutex
C11_Witness ==
  \E a, b, c \in batch.targets :
    /\ Failed(a) /\ child[a] \in {"appended", "exited"}
    /\ EntriesOf(a) # {}
    /\ outcome[b] \in {"answer", "ok"} /\ child[b] = "append" /\ resultsMu = b
    /\ child[c] = "lock"

\* the lines of the map report, in the order they were sent
MapLines == followUps[Len(followUps)].fields[1].lines

\* C12: the report of a map broadcast over N targets has exactly N lines, one
\* for each target key; the lines marked failed are those of the targets whose
\* command returned an error, so with exactly one such target exactly one line
\* is marked failed and the other N-1 are reported as changed.
C12_BroadcastOnePerTarget ==
  (Reported /\ batch.kind = "map") =>
    /\ Len(results) = Cardinality(batch.targets)
    /\ Len(MapLines) = Cardinality(batch.targets)
    /\ \A k \in batch.targets :
         Cardinality({i \in 1..Len(MapLines) : MapLines[i].key = k}) = 1
    /\ {MapLines[i].key : i \in {j \in 1..Len(MapLines) : MapLines[j].state = "failed"}}
         = {k \in batch.targets : outcome[k] # "ok"}
    /\ Cardinality({k \in batch.targets : outcome[k] # "ok"}) = 1 =>
         /\ Cardinality({i \in 1..Len(MapLines) : MapLines[i].state = "failed"}) = 1
         /\ Cardinality({i \in 1..Len(MapLines) : MapLines[i].state = "changed"})
              = Cardinality(batch.targets) - 1

\* a broadcast to all CS2 servers has reported; exactly one target's command
\* returned an error
C12_Witness ==
  /\ Reported
  /\ batch.kind = "map"
  /\ batch.targets = AllCS2RCONTargets
  /\ Cardinality(batch.targets) >= 2
  /\ Cardinality({k \in batch.targets : outcome[k] # "ok"}) = 1
  /\ \E i \in 1..Len(MapLines) : MapLines[i].state = "failed"

(***************************************************************************)
(* Fleet vocabulary.                                                       *)
(***************************************************************************)
\* f holds matchMu: between its successful TryLock and its deferred Unlock
FleetHolds(f) == fleet[f].pc \in {"call", "running", "unlock"}

\* f's call of ShellExecutor.Run is in progress
FleetExecuting(f) == fleet[f].pc = "running"

\* the kinds of the messages sent to f after the deferred acknowledgement
FleetKinds(f) == {fleetOut[f][i].text : i \in 2..Len(fleetOut[f])}

FleetRejected(f) == "already in progress" \in FleetKinds(f)

\* the calls of Run made for f
RunsOf(f) == {i \in 1..Len(matchRuns) : matchRuns[i].by = f}

\* C13: at most one match start/stop operation holds matchMu and executes at
\* any time; a request that tries the lock while another holds it is answered
\* "already in progress" in that very step, returns, and never calls Run.
C13_OneFleetOperation ==
  /\ [](/\ Cardinality({f \in Reqs : FleetHolds(f)}) <= 1
        /\ \A f \in Reqs : FleetRejected(f) =>
             fleet[f].pc = "returned" /\ RunsOf(f) = {})
  /\ [][\A f \in Reqs :
          (/\ fleet[f].pc = "tryLock"
           /\ fleet'[f].pc # "tryLock"
           /\ \E g \in Reqs \ {f} : FleetHolds(g)) =>
            /\ fleet'[f].pc = "returned"
            /\ fleetOut'[f] = Append(fleetOut[f],
                                     [kind |-> "error", text |-> "already in progress"])
            /\ matchRuns' = matchRuns
            /\ matchMu' = matchMu]_vars

\* one operation is executing its script, another request was rejected
C13_Witness ==
  \E f, g \in Reqs :
    /\ f # g
    /\ FleetExecuting(f)
    /\ FleetRejected(g)
    /\ fleet[g].pc = "returned"

\* f's call of h.match.Start or h.match.Stop has been made
FleetCalled(f) ==
  fleet[f].pc \in {"running", "unlock", "returned"} /\ ~FleetRejected(f)

\* f was answered with the validation error of MatchExecutor.Start
ValidationError(f) ==
  \E i \in 2..Len(fleetOut[f]) :
    fleetOut[f][i] = [kind |-> "error", text |-> "Failed to start",
                      err |-> "count must be"]

\* C14: a match start whose count is <= 0 or above the configured maximum
\* returns the validation error and Run is not called for it; a match start
\* whose count is in 1..maximum calls Run exactly once, with that count.
C14_CountValidation ==
  \A f \in Reqs :
    (FleetCalled(f) /\ fleet[f].op = "start") =>
      IF fleet[f].count <= 0 \/ fleet[f].count > MaxInstances
      THEN RunsOf(f) = {} /\ ValidationError(f)
      ELSE /\ Cardinality(RunsOf(f)) = 1
           /\ \A i \in RunsOf(f) :
                matchRuns[i].command = "match up --count " \o ToString(fleet[f].count)
           /\ ~ValidationError(f)

\* starts with a count of zero or below, with one above the maximum and with
\* one in range have each been through MatchExecutor.Start
C14_Witness ==
  \E f \in Reqs :
    /\ FleetCalled(f)
    /\ fleet[f].op = "start"
    /\ fleet[f].count > MaxInstances
    /\ ValidationError(f)
    /\ \E g \in Reqs :
         /\ FleetCalled(g) /\ fleet[g].op = "start"
         /\ fleet[g].count \in 1..MaxInstances
         /\ RunsOf(g) # {}

\* f is a match start whose count is out of range
BadCount(f) ==
  /\ fleet[f].op = "start"
  /\ (fleet[f].count <= 0 \/ fleet[f].count > MaxInstances)

\* C15 as claimed: a match start with an out-of-range count is answered with
\* the validation error in every state, also while another operation holds
\* matchMu, and never acquires matchMu.
C15_ValidationBeforeLock ==
  \A f \in Reqs :
    BadCount(f) =>
      /\ ~FleetHolds(f)
      /\ fleet[f].pc = "returned" => ValidationError(f)

\* C15 as amended: a match start with an out-of-range count never calls Run.
\* It tries matchMu first: while another operation holds the lock it is
\* answered "already in progress" and not with the validation error; with the
\* lock free it takes the lock, is answered with the validation error and
\* releases the lock when it returns.
C15_ValidationAfterLock ==
  /\ [](\A f \in Reqs :
          BadCount(f) =>
            /\ RunsOf(f) = {}
            /\ ~FleetExecuting(f)
            /\ ValidationError(f) => fleet[f].pc \in {"unlock", "returned"}
            /\ fleet[f].pc = "returned" => (ValidationError(f) # FleetRejected(f)))
  /\ [][\A f \in Reqs :
          (BadCount(f) /\ fleet[f].pc = "tryLock" /\ fleet'[f].pc # "tryLock") =>
            IF matchMu = "locked"
            THEN /\ fleet'[f].pc = "returned"
                 /\ fleetOut'[f][Len(fleetOut'[f])].text = "already in progress"
                 /\ matchMu' = "locked"
            ELSE /\ fleet'[f].pc = "call"
                 /\ matchMu' = "locked"]_vars
  /\ [][\A f \in Reqs :
          (BadCount(f) /\ fleet[f].pc = "unlock" /\ fleet'[f].pc = "returned") =>
            ValidationError(f) /\ matchMu' = "unlocked"]_vars

\* one out-of-range start was rejected as already in progress while another
\* operation held the lock; another out-of-range start held the lock and got
\* the validation error
C15_Witness ==
  \E f, g \in Reqs :
    /\ f # g
    /\ BadCount(f) /\ FleetRejected(f) /\ ~ValidationError(f)
    /\ BadCount(g) /\ ValidationError(g) /\ fleet[g].pc = "returned"

\* an RCON command of a map broadcast is in flight
BroadcastInFlight ==
  /\ batch.kind = "map"
  /\ \E k \in batch.targets : child[k] = "call"

\* the map handler has started and not yet reported
BroadcastRunning == batch.kind = "map" /\ batch.pc = "spawn"

\* C16 as claimed: no RCON command of a map broadcast is in flight while a
\* match start or stop executes, and no match start or stop takes the lock
\* while a broadcast is running.
C16_BroadcastExcludesFleet ==
  \A f \in Reqs :
    /\ FleetExecuting(f) => ~BroadcastInFlight
    /\ FleetHolds(f) => ~BroadcastRunning

\* C16 as amended: matchMu serializes match start and stop with each other
\* only.  No step of a map broadcast takes, tests or releases matchMu or
\* touches a match operation, and whether a match start or stop is accepted
\* depends on matchMu alone, so it is accepted also while a broadcast runs.
C16_BroadcastOutsideFleetLock ==
  /\ [][(batch' # batch \/ child' # child \/ results' # results) =>
          /\ matchMu' = matchMu
          /\ fleet' = fleet
          /\ matchRuns' = matchRuns]_vars
  /\ [][\A f \in Reqs :
          (fleet[f].pc = "tryLock" /\ fleet'[f].pc # "tryLock") =>
            /\ (fleet'[f].pc = "call") = (matchMu = "unlocked")
            /\ batch' = batch /\ child' = child]_vars
  /\ [](Cardinality({f \in Reqs : FleetHolds(f)}) <= 1)

\* a match start took the lock while the broadcast was running and executes
\* its script while RCON commands of the broadcast are in flight
C16_Witness ==
  /\ BroadcastInFlight
  /\ Cardinality(batch.targets) >= 2
  /\ \E k \in batch.targets : child[k] \in {"appended", "exited"}
  /\ \E f \in Reqs :
       /\ FleetExecuting(f)
       /\ fleet[f].op = "start"
       /\ matchMu = "locked"

(***************************************************************************)
(* Vocabulary for single calls of Run.                                     *)
(***************************************************************************)
Returned == call.phase = "returned"

\* the script was started, ran and exited with a non-zero status
ExitedNonZero == call.ev = "exitN"

\* the script had not exited when the deadline passed and was killed
KilledAtDeadline == call.ev = "killed"

\* C17: when the script ran and exited with a non-zero status, Run returns a
\* nil error and a result with that status as ExitCode and the captured stdout
\* and stderr; Run returns a non-nil error only when bash could not be run or
\* the deadline passed.
C17_NonZeroExitIsNoError ==
  Returned =>
    /\ ExitedNonZero =>
         /\ call.result.err = "nil"
         /\ call.result.ExitCode = FailCode
         /\ call.result.Stdout = "out"
         /\ call.result.Stderr = "err"
    /\ call.result.err # "nil" => call.ev \in {"spawnfail", "deadline"}

\* a script exited non-zero and Run has returned its status without an error
C17_Witness ==
  /\ Returned
  /\ ExitedNonZero
  /\ call.result.ExitCode # 0
  /\ call.result.err = "nil"

C19_NonStartTimeoutIsError ==
  (Returned /\ call.command \notin {"up", "start", "u"}) =>
    /\ KilledAtDeadline => call.result.err = "timeout"
    /\ ExitedNonZero => call.result.err = "nil"

\* the sum of the players the servers in set report while they are up
RECURSIVE LivePlayers(_)
LivePlayers(set) ==
  IF set = {} THEN 0
  ELSE LET k == CHOOSE x \in set : TRUE
       IN  LiveStatus(k).Players + LivePlayers(set \ {k})

\* the targets of the batch whose query was answered
OnlineTargets == {k \in batch.targets : outcome[k] = "answer"}

\* C20: the total of the players report over all targets is the sum of the
\* player counts of exactly the targets that are online; a target that is
\* offline or unreachable adds nothing, and gets no line.
C20_TotalOfOnlineTargets ==
  (Reported /\ batch.kind = "players") =>
    LET rep == followUps[Len(followUps)]
    IN  /\ rep.total = LivePlayers(OnlineTargets)
        /\ {l.key : l \in ReportLines} = OnlineTargets
        /\ \A l \in ReportLines : l.players = LiveStatus(l.key).Players

\* a players report over all targets: two answered, one is unreachable
C20_Witness ==
  /\ Reported
  /\ batch.kind = "players"
  /\ Cardinality(OnlineTargets) >= 2
  /\ \E k \in batch.targets : outcome[k] = "noanswer"
  /\ followUps[Len(followUps)].total > 2

(***************************************************************************)
(* Vocabulary for the single-server requests.                              *)
(***************************************************************************)
\* QueryStatus has returned to r
Queried(r) == single[r].ev # "none"

\* the last message sent to r
LastOut(r) == single[r].out[Len(single[r].out)]

\* the names of the fields of an embed
FieldNames(msg) == {msg.fields[i].Name : i \in 1..Len(msg.fields)}

\* C21: QueryStatus always returns a status; when the info query failed the
\* status is offline and the error nil; the status is online only when the
\* info query was answered; the error is non-nil only when the client could
\* not be created.
C21_QueryStatusContract ==
  \A r \in Reqs :
    Queried(r) =>
      LET st == single[r].st
      IN  /\ st.status.Present
          /\ single[r].ev = "noanswer" => (~st.status.Online /\ st.err = "nil")
          /\ st.status.Online => single[r].ev = "answer"
          /\ single[r].ev = "answer" => (st.status.Online /\ st.err = "nil")
          /\ st.err # "nil" => single[r].ev = "noclient"

\* one request had its info query fail, another had it answered
C21_Witness ==
  \E r, q \in Reqs :
    /\ Queried(r) /\ single[r].ev = "noanswer" /\ ~single[r].st.status.Online
    /\ Queried(q) /\ single[q].ev = "answer" /\ single[q].st.status.Online

\* C22: when the status query of a single-server request reported the server
\* online and the player-list query failed, the request ends with the embed of
\* an online server (its map and players, and Status Online in the status
\* handler) without the player list; it does not end with an error or Offline.
C22_PlayerListBestEffort ==
  \A r \in Reqs :
    (single[r].pc = "done" /\ Queried(r) /\ single[r].st.err = "nil"
       /\ single[r].st.status.Online) =>
      /\ LastOut(r).kind = "embed"
      /\ {"Map", "Players"} \subseteq FieldNames(LastOut(r))
      /\ \A i \in 1..Len(LastOut(r).fields) :
           LET f == LastOut(r).fields[i]
           IN  /\ f.Name = "Status" => f.Value = "Online"
               /\ f.Name = "Map" => f.Value = single[r].st.status.Map
               /\ f.Name = "Players" =>
                    f.Value = <<single[r].st.status.Players,
                                single[r].st.status.MaxPlayers>>
      /\ single[r].handler = "status" => "Status" \in FieldNames(LastOut(r))
      /\ LastOut(r).pev \in {"fail", "noclient", "empty"} =>
           "Connected Players" \notin FieldNames(LastOut(r))
      /\ LastOut(r).pev = "list" => "Connected Players" \in FieldNames(LastOut(r))

\* a status request and a players request, both on an online server, whose
\* player-list query failed
C22_Witness ==
  \E r, q \in Reqs :
    /\ single[r].pc = "done" /\ single[r].handler = "status"
    /\ single[r].st.status.Online /\ LastOut(r).kind = "embed"
    /\ "pev" \in DOMAIN LastOut(r) /\ LastOut(r).pev = "fail"
    /\ single[q].pc = "done" /\ single[q].handler = "players"
    /\ single[q].st.status.Online /\ LastOut(q).kind = "embed"
    /\ "pev" \in DOMAIN LastOut(q) /\ LastOut(q).pev = "noclient"

(***************************************************************************)
(* Vocabulary for the configuration.                                       *)
(***************************************************************************)
\* the last operation on the accepted configuration resolved a key
Resolved ==
  cfg.pc = "loaded" /\ cfgOut.op \in Resolvers /\ cfgOut.err = "nil"

\* C23: under every configuration Validate accepts, no key of a static server
\* is the key of a match instance, and every handler that resolves a key
\* (resolveServer, the map handler's and the query handlers' target maps)
\* resolves it to the same server address.
C23_KeyDenotesOneResource ==
  /\ cfg.pc = "loaded" => DOMAIN cfg.c.Servers \cap MatchKeys = {}
  /\ Resolved =>
       \A h \in Resolvers :
         Resolve(cfg.c, h, cfgOut.key).err = "nil" =>
           Resolve(cfg.c, h, cfgOut.key).ip = cfgOut.ip

(***************************************************************************)
(* Vocabulary for the locks of the three kinds of interaction.             *)
(***************************************************************************)
\* the locks that are held: the mutexes of the lock table, matchMu and the
\* mutex of the batch in progress
HeldLocks ==
  {<<"server", m>> : m \in {m2 \in Reqs : mutexes[m2] = "locked"}}
    \cup (IF matchMu = "locked" THEN {<<"match", 0>>} ELSE {})
    \cup (IF resultsMu # "free" THEN {<<"results", 0>>} ELSE {})

\* the locks an operation holds by the place its goroutines are at
LifecycleLocks(r) == IF Holds(r) THEN {<<"server", mu[r]>>} ELSE {}

FleetLocks(f) == IF FleetHolds(f) THEN {<<"match", 0>>} ELSE {}

ChildLocks(k) == IF child[k] \in {"read", "append"} THEN {<<"results", 0>>} ELSE {}

\* the operations that hold a lock
Holders ==
  {<<"lifecycle", r>> : r \in {r2 \in Reqs : Holds(r2)}}
    \cup {<<"fleet", f>> : f \in {f2 \in Reqs : FleetHolds(f2)}}
    \cup {<<"child", k>> : k \in {k2 \in AllTargets : child[k2] \in {"read", "append"}}}

\* C24: locks are never nested.  Every lock that is held is the one lock of
\* one operation of its own kind (a lifecycle operation holds the mutex of its
\* key, a fleet operation holds matchMu, a goroutine of a batch holds the
\* batch's mutex while it appends), so no operation holds two locks; and a
\* goroutine that waits for a lock (mu.Lock() of a batch, the only blocking
\* acquisition) holds none.
C24_LocksNeverNested ==
  /\ HeldLocks = UNION ({LifecycleLocks(r) : r \in Reqs}
                          \cup {FleetLocks(f) : f \in Reqs}
                          \cup {ChildLocks(k) : k \in AllTargets})
  /\ Cardinality(HeldLocks) = Cardinality(Holders)
  /\ \A k \in AllTargets :
       child[k] = "lock" =>
         /\ resultsMu # k
         /\ HeldLocks \subseteq {<<"results", 0>>}
  /\ \A k \in AllTargets : (resultsMu = k) <=> (child[k] \in {"read", "append"})

\* a goroutine of a batch waits for the batch's mutex while another holds it
C24_Witness ==
  \E k1, k2 \in AllTargets :
    /\ child[k1] = "lock"
    /\ child[k2] = "append"
    /\ resultsMu = k2
    /\ HeldLocks = {<<"results", 0>>}

\* the lifecycle operation r, or the fleet operation f, is over
LifecycleOver(r) == pc[r] = "returned" /\ bg[r] \in {"none", "exited"}

FleetOver(f) == fleet[f].pc = "returned"

\* the lifecycle operations that own mutex m, and those that own matchMu
OwnersOf(m) == {r \in Reqs : Holds(r) /\ mu[r] = m}

FleetOwners == {f \in Reqs : FleetHolds(f)}

\* a lock is locked exactly when one operation that is not over owns it, and
\* every lock is free once every operation is over
LocksOwned ==
  /\ \A m \in Reqs :
       /\ (mutexes[m] = "locked") <=> (Cardinality(OwnersOf(m)) = 1)
       /\ \A r \in OwnersOf(m) : ~LifecycleOver(r)
  /\ (matchMu = "locked") <=> (Cardinality(FleetOwners) = 1)
  /\ \A f \in FleetOwners : ~FleetOver(f)
  /\ (\A r \in Reqs : pc[r] = "idle" \/ LifecycleOver(r)) =>
       \A m \in Reqs : TryLock(m)
  /\ (\A f \in Reqs : fleet[f].pc = "idle" \/ FleetOver(f)) =>
       matchMu = "unlocked"

\* a step that unlocks a lock is the Unlock of the operation that owns it
ReleasedByOwner ==
  /\ \A m \in Reqs :
       (mutexes[m] = "locked" /\ mutexes'[m] = "unlocked") =>
         \E r \in OwnersOf(m) : bg[r] = "finished" /\ bg'[r] = "exited"
  /\ (matchMu = "locked" /\ matchMu' = "unlocked") =>
       \E f \in FleetOwners : fleet[f].pc = "unlock" /\ fleet'[f].pc = "returned"

\* C25: a mutex of the lock table, or matchMu, is locked if and only if
\* exactly one operation that is not over owns it; a step that unlocks it is a
\* step of its owner, which owns it no longer; an operation that is over, with
\* any outcome, owns no lock, so once every operation is over every lock is
\* free and the next TryLock succeeds.
C25_LockOwnedByOneUnfinished == []LocksOwned /\ [][ReleasedByOwner]_vars

\* a fleet start that failed validation and one that was rejected for
\* contention are over, the lock is free again
C25_Witness ==
  \E f1, f2 \in Reqs :
    /\ f1 # f2
    /\ FleetOver(f1) /\ FleetOver(f2)
    /\ ValidationError(f1)
    /\ FleetRejected(f2)
    /\ matchMu = "unlocked"

(***************************************************************************)
(* Vocabulary for the targets of a map change.                             *)
(***************************************************************************)
\* a /ned match map interaction has computed its target map
MapStarted == batch.kind = "map" /\ batch.pc # "idle"

\* the static servers AllCS2RCONTargets lists
StaticCS2 ==
  {k \in ServerKeys : Servers[k].Category = "cs2" /\ Servers[k].RCONPort > 0
                        /\ Servers[k].RCONPassword # ""}

\* C26 as stated: a map change, to one server or to all, is sent to at least
\* one target and to at most as many targets as the configured maximum number
\* of instances.
C26_TargetCountWithinMax ==
  MapStarted =>
    /\ Cardinality(batch.targets) >= 1
    /\ Cardinality(batch.targets) <= CS2Matches.Pro.MaxInstances

\* C26, amended: a map change for one server goes to exactly that server when
\* it is a CS2 RCON target and to no target otherwise (the interaction is
\* answered with an error); a map change without a server goes to every
\* static CS2 server with RCON and to every match instance 1..MaxInstances,
\* started or not, so the number of targets is not bounded by MaxInstances;
\* and by the time of the report the command was executed on each target and
\* on no other key.
C26_MapTargetSet ==
  MapStarted =>
    /\ batch.key = "" => batch.targets = StaticCS2 \cup MatchKeys
    /\ batch.key \in AllCS2RCONTargets => batch.targets = {batch.key}
    /\ (batch.key # "" /\ batch.key \notin AllCS2RCONTargets) =>
         /\ batch.targets = {}
         /\ batch.pc = "done"
         /\ followUps[Len(followUps)].kind = "error"
    /\ \A k \in AllTargets \ batch.targets : child[k] = "none"
    /\ batch.pc = "done" =>
         \A k \in batch.targets : outcome[k] \in RconEvents

\* a broadcast has reported and reached a match instance although no match
\* start was ever requested
C26_Witness ==
  /\ MapStarted /\ Reported
  /\ batch.key = ""
  /\ MatchKey(1) \in batch.targets
  /\ outcome[MatchKey(1)] \in RconEvents
  /\ Cardinality(batch.targets) > CS2Matches.Pro.MaxInstances
  /\ \A f \in Reqs : fleet[f].pc = "idle"
  /\ matchRuns = <<>>

\* the lines of the last status report that are about key k
LinesOf(k) == {i \in 1..Len(cfgOut.lines) : cfgOut.lines[i].key = k}

\* C27: under every configuration Validate accepts, the report of the status
\* of all targets has exactly one line for every configured server and for
\* every match instance, be it online, offline or not queryable.
C27_CompleteStatusReport ==
  (cfg.pc = "loaded" /\ cfgOut.op = "statusAll") =>
    \A k \in DOMAIN cfg.c.Servers \cup MatchKeys : Cardinality(LinesOf(k)) = 1

\* the positions of matchRuns that are calls of a stop
StopRuns == {i \in 1..Len(matchRuns) : fleet[matchRuns[i].by].op = "stop"}

Derived ==
  cfg.pc = "loaded" /\ cfgOut.op = "instanceIP"
    /\ cfg.c.CS2Matches.Pro.IPBase # <<>>

\* C29: for every base address that is an IPv4 address and every index n in
\* 1..MaxInstances, InstanceIP(n) is the base address with n added to its
\* last octet and the other three octets unchanged, and two different indices
\* get two different addresses.
C29_InstanceIPAddsIndex ==
  Derived =>
    LET base == cfg.c.CS2Matches.Pro.IPBase
        max == cfg.c.CS2Matches.Pro.MaxInstances
    IN  /\ cfgOut.ip = <<base[1], base[2], base[3], base[4] + cfgOut.n>>
        /\ cfgOut.ip[4] \in 0..255
        /\ \A i, j \in 1..max :
             i # j => InstanceIP(cfg.c.CS2Matches.Pro, i)
                        # InstanceIP(cfg.c.CS2Matches.Pro, j)

\* C30: a match start hands the instance count to Run as environment
\* overrides and leaves the verb as it is: Run is called with the command of a
\* lifecycle start (up), a match stop with that of a lifecycle stop (down).
C30_CountAsEnvOverride ==
  \A i \in 1..Len(matchRuns) :
    /\ matchRuns[i].command = HandleAction(fleet[matchRuns[i].by].op)
    /\ DOMAIN matchRuns[i].env # {}

\* C31: Run treats the command of a match start as a start: it gets the
\* timeout of a start (30 seconds), and a match start whose script is still
\* running at the deadline is not answered with the timeout error.
C31_FleetStartIsStartType ==
  /\ \A i \in 1..Len(matchRuns) :
       fleet[matchRuns[i].by].op = "start" =>
         /\ StartType(matchRuns[i].command)
         /\ RunTimeout(matchRuns[i].command) = RunTimeout("up")
  /\ \A f \in Reqs :
       fleet[f].op = "start" =>
         \A i \in 1..Len(fleetOut[f]) :
           fleetOut[f][i].kind = "error" /\ fleetOut[f][i].text = "Failed to start"
             => fleetOut[f][i].err # "timeout"

\* serverLock has returned in interaction r
GotMutex(r) == pc[r] \notin {"idle", "serverLock"} /\ serviceKey[r] \in ServerKeys

\* C32: the lock table loads or creates.  Every call of serverLock for a key
\* returns the mutex the table holds for that key, so two calls for the same
\* key return the same mutex, also when both are first uses of the key; and
\* an entry of the table, once created, is never removed or replaced.
C32_LoadOrCreate ==
  /\ [](\A r1, r2 \in Reqs :
          (GotMutex(r1) /\ GotMutex(r2) /\ serviceKey[r1] = serviceKey[r2]) =>
            /\ mu[r1] = mu[r2]
            /\ mu[r1] = locks[serviceKey[r1]]
            /\ mu[r1] # 0)
  /\ [][\A k \in RequestKeys : locks[k] # 0 => locks'[k] = locks[k]]_vars

\* two requests for the same key have both called serverLock before either
\* tried the mutex, and both hold the mutex the first one created
C32_Witness ==
  \E r1, r2 \in Reqs :
    /\ r1 # r2
    /\ serviceKey[r1] = serviceKey[r2]
    /\ pc[r1] = "tryLock" /\ pc[r2] = "tryLock"
    /\ mu[r1] = mu[r2] /\ mu[r1] # 0
    /\ locks[serviceKey[r1]] = mu[r1]

(***************************************************************************)
(* Vocabulary for the commands sent to one server.                         *)
(***************************************************************************)
\* under configuration c, key is no server and no match instance, or it is a
\* static server without an RCON port and password
NoRCONTarget(c, key) ==
  IF key \in DOMAIN c.Servers
  THEN c.Servers[key].RCONPort = 0 \/ c.Servers[key].RCONPassword = ""
  ELSE key \notin MatchKeys

\* C33: an RCON command, or a map change for one server, whose key is unknown
\* or is a static server without RCON port and password is answered with an
\* error, and no RCON call is made to any target.
C33_BadTargetNoCall ==
  /\ (rcon.pc # "idle" /\ NoRCONTarget(cfg.c, rcon.key)) =>
       /\ rcon.pc = "done"
       /\ rcon.calls = <<>>
       /\ Len(rcon.out) = 2
       /\ rcon.out[2].kind = "error"
  /\ (MapStarted /\ batch.key # "" /\ NoRCONTarget(DefaultConfig, batch.key)) =>
       /\ batch.pc = "done"
       /\ batch.targets = {}
       /\ followUps[Len(followUps)].kind = "error"
       /\ \A k \in AllTargets : child[k] = "none" /\ outcome[k] = "none"
       /\ results = <<>>

\* an RCON command for a static server that has no RCON port was answered
\* with the error, and no call was made
C33_Witness ==
  /\ rcon.pc = "done"
  /\ rcon.key \in DOMAIN cfg.c.Servers
  /\ cfg.c.Servers[rcon.key].RCONPort = 0
  /\ rcon.calls = <<>>
  /\ rcon.out[2] = [kind |-> "error", text |-> "does not have RCON configured"]

\* a step of the query batch leaves the lock table, the mutexes of the table
\* and matchMu as they are
QueryStepKeepsLocks ==
  batchVars' # batchVars => UNCHANGED <<locks, mu, mutexes, matchMu>>

\* neither the query nor the request next to it is turned away
NoRejection ==
  /\ batch.pc # "idle" =>
       /\ batch.targets = AllQueryTargets
       /\ \A i \in 1..Len(followUps) : followUps[i].kind # "error"
  /\ \A r \in Reqs : ~Rejected(r) /\ ~FleetRejected(r)

\* C34: a status or players query over all targets neither takes nor tests a
\* lock: its steps leave the lock table, its mutexes and matchMu unchanged, it
\* is started and reports on every query target while a lifecycle or a match
\* operation holds its lock, and the lifecycle or match request that runs
\* next to it is never answered as already in progress.
C34_QueriesNeedNoLock == []NoRejection /\ [][QueryStepKeepsLocks]_vars

\* a status query has reported on every target, tf2 among them, while the
\* restart of tf2 holds the lock of tf2 and its script runs
C34_Witness ==
  /\ Reported
  /\ batch.kind = "status"
  /\ "tf2" \in batch.targets
  /\ Holds(1) /\ Executing(1)
  /\ serviceKey[1] = "tf2"
  /\ mutexes[mu[1]] = "locked"

\* this step answers the match request f as already in progress
RejectedStep(f) ==
  /\ fleet[f].pc = "tryLock"
  /\ fleet'[f].pc = "returned"

\* C35 as stated: a match start that fails the validation of its count never
\* makes a match start with a valid count, or a match stop, be answered as
\* already in progress: whenever such a request was answered so, a request
\* that passed the validation has taken the lock.
C35_InvalidNeverBlocks ==
  \A f \in Reqs :
    (FleetRejected(f) /\ ~BadCount(f)) =>
      \E g \in Reqs \ {f} :
        /\ ~BadCount(g)
        /\ fleet[g].pc \notin {"idle", "tryLock"}
        /\ ~FleetRejected(g)

\* a match start with an out-of-range count holds matchMu and calls nothing
HoldsWithoutRun(g) ==
  (BadCount(g) /\ FleetHolds(g)) =>
    /\ matchMu = "locked"
    /\ fleet[g].pc \in {"call", "unlock"}
    /\ RunsOf(g) = {}

\* once it has returned, nothing of it is left in the lock
FreeAfterInvalid ==
  (\A g \in Reqs : fleet[g].pc \in {"idle", "returned"}) => matchMu = "unlocked"

\* C35, amended: a match start that fails the validation of its count holds
\* matchMu from its TryLock to its deferred Unlock without calling Run; a
\* match request that tries the lock in between is answered as already in
\* progress, whether its own count is valid or not, and a request is answered
\* so only while another request holds the lock, so none is after the invalid
\* one has returned.
C35_InvalidBlocksWhileHolding ==
  /\ [](\A g \in Reqs : HoldsWithoutRun(g))
  /\ []FreeAfterInvalid
  /\ [][\A f \in Reqs :
          /\ RejectedStep(f) => \E g \in Reqs \ {f} : FleetHolds(g)
          /\ (fleet[f].pc = "tryLock" /\ fleet'[f].pc # "tryLock"
                /\ \E g \in Reqs \ {f} : FleetHolds(g)) => RejectedStep(f)]_vars

\* a stop was answered as already in progress while a start with an
\* out-of-range count held the lock
C35_Witness ==
  \E f, g \in Reqs :
    /\ f # g
    /\ fleet[f].op = "stop" /\ FleetRejected(f)
    /\ BadCount(g) /\ FleetHolds(g)
    /\ RunsOf(g) = {}
    /\ Len(matchRuns) = 0

\* request r is turned away with "already in progress" in this step
LifecycleRejectedStep(r) ==
  /\ pc[r] = "tryLock"
  /\ pc'[r] = "returned"

\* another lifecycle request on the key of r holds that key's lock
SameKeyInProgress(r) ==
  \E r2 \in Reqs \ {r} :
    /\ Holds(r2)
    /\ serviceKey[r2] = serviceKey[r]

\* request r passes TryLock in this step
LifecycleTryStep(r) ==
  /\ pc[r] = "tryLock"
  /\ pc'[r] # "tryLock"

\* C36: a lifecycle request on key k is rejected as already in progress only
\* if another lifecycle operation on the same key k is in progress (holds the
\* key's lock); when none is, the request is accepted whatever is in progress
\* on other keys, whether or not a fleet operation holds the match lock and
\* whether or not a batch is in flight.
C36_RejectedOnlyBySameKey ==
  [][\A r \in Reqs :
       /\ LifecycleRejectedStep(r) => SameKeyInProgress(r)
       /\ (LifecycleTryStep(r) /\ ~SameKeyInProgress(r)) => pc'[r] = "respond"]_vars

\* request 2 on cs2 has been accepted while request 1 holds the lock of tf2, a
\* fleet operation holds the match lock and a map broadcast is in flight
C36_Witness ==
  /\ serviceKey[1] = "tf2"
  /\ Holds(1)
  /\ serviceKey[2] = "cs2"
  /\ Holds(2)
  /\ matchMu = "locked"
  /\ batch.pc \notin {"idle", "done"}
  /\ \E k \in AllCS2RCONTargets : child[k] \in {"call", "lock", "read", "append"}

\* the entries of the requested targets, taken in key order, each with the
\* result its query returned
EntriesByKey ==
  LET keys == KeysInOrder(batch.targets)
  IN  [i \in 1..Len(keys) |-> Entry(keys[i])]

\* the lines of every field of the report sent are in ascending key order
FieldsInKeyOrder ==
  LET rep == followUps[Len(followUps)]
  IN  \A j \in 1..Len(rep.fields) :
        \A a, b \in 1..Len(rep.fields[j].lines) :
          a < b => KeyLess(rep.fields[j].lines[a].key, rep.fields[j].lines[b].key)

\* the child queries completed in an order that is not the key order
ArrivedOutOfOrder ==
  \E a, b \in 1..Len(results) :
    /\ a < b
    /\ KeyLess(results[b].key, results[a].key)

\* C37: the report of an all-targets status or players query is a function of
\* the target set and the per-target query results alone: whatever the order in
\* which the child queries completed, it is the report built from the entries
\* taken in key order, and every field lists its lines in ascending key order.
C37_ReportIndependentOfArrival ==
  (Reported /\ batch.kind \in QueryKinds) =>
    /\ followUps[Len(followUps)] = Report(batch.kind, EntriesByKey)
    /\ FieldsInKeyOrder

\* a status or players report was sent for results that arrived out of key
\* order, with at least two lines in one field
C37_Witness ==
  /\ Reported
  /\ batch.kind \in QueryKinds
  /\ ArrivedOutOfOrder
  /\ \E j \in 1..Len(followUps[Len(followUps)].fields) :
       Len(followUps[Len(followUps)].fields[j].lines) >= 2

\* C38: the report of a map broadcast is a function of the target set and the
\* per-target RCON outcomes alone: whatever the order in which the child calls
\* completed, its lines are those built from the results taken in key order.
C38_MapReportIndependentOfArrival ==
  (Reported /\ batch.kind = "map") =>
    followUps[Len(followUps)] = Report("map", EntriesByKey)

TypeOK ==
  /\ pc \in [Reqs -> {"idle", "serverLock", "tryLock", "respond",
                      "go", "returned"}]
  /\ bg \in [Reqs -> {"none", "ready", "running", "finished", "exited"}]
  /\ mu \in [Reqs -> 0..MaxReqs]
  /\ locks \in [RequestKeys -> 0..MaxReqs]
  /\ mutexes \in [Reqs -> {"unlocked", "locked"}]
  /\ batch.pc \in {"idle", "spawn", "done"}
  /\ batch.targets \subseteq AllTargets
  /\ child \in [AllTargets -> {"none", "call", "lock", "read", "append",
                                "appended", "exited"}]
  /\ resultsMu \in {"free"} \cup AllTargets
  /\ wg \in 0..Cardinality(AllTargets)
  /\ Len(results) <= Cardinality(AllTargets)
  /\ matchMu \in {"unlocked", "locked"}
  /\ call.phase \in {"idle", "running", "returned"}
  /\ call.result.err \in {"nil", "timeout", "exec"}
  /\ \A f \in Reqs : fleet[f].pc \in {"idle", "tryLock", "call", "running",
                                       "unlock", "returned"}
  /\ rcon.pc \in {"idle", "execute", "done"}
  /\ Len(rcon.calls) <= 1
  /\ cfg.pc \in {"start", "loaded", "rejected"}
  /\ cfg.c \in Configs \cup {DefaultConfig}
  /\ cfgOut.op \in {"none", "instanceIP", "statusAll"} \cup Resolvers
  /\ Len(cfgOut.ip) \in {0, 4}
=============================================================================
